---- MODULE Spec2Model ----
(***************************************************************************)
(* Live synchronisation pipeline of design-duck: the debounced file        *)
(* watcher (infrastructure/file-watcher.ts) and the built-in UI server     *)
(* with its SSE registry (infrastructure/ui-server.ts).                    *)
(*                                                                         *)
(* Time is a discrete clock `now`.  A pending setTimeout is urgent: the    *)
(* clock cannot pass the instant a timer is due before the timer callback  *)
(* has run, but other handlers may still run at that very instant.         *)
(***************************************************************************)
EXTENDS Integers, Sequences, FiniteSets, TLC

\* ------------------------------------------------------------------ bounds
\* options.debounceMs, scaled down (the default is 100, the tests use 50).
DebounceMs == 2
\* The clock runs from 0 to MaxTime.
MaxTime == 5
\* Number of filesystem writes the environment performs.
MaxWrites == 3
\* Number of fs.watch events queued by the platform and not yet delivered.
MaxInflight == 1
\* Number of distinct /events response streams.
MaxStreams == 2
\* Number of calls of a handle's close().
MaxCloses == 2
\* Calls of loadFromFiles() in a run.
MaxLoads == 3
\* EventSource objects, and interval timers, created in a run.
MaxHandles == 2
\* Calls of startWatching() in a run.
MaxStarts == 3
\* Calls of stopWatching() in a run.
MaxStops == 2
\* 'error' events the FSWatcher emits in a run.
MaxErrors == 1

\* --------------------------------------------------------------- filenames
\* A filename is a tuple of one-character strings; NullName is the `null`
\* filename some platforms report.
NullName == <<"null">>

FileNames ==
    { <<"m", ".", "y", "a", "m", "l">>,
      <<"e", ".", "y", "m", "l">>,
      <<"M", ".", "Y", "M", "L">>,
      <<".", "y", "a", "m", "l">>,
      <<"y", "m", "l">>,
      <<"r", ".", "m", "d">>,
      <<"a", ".", "y", "m", "l", ".", "b">> }

\* The filenames the platform reports in fs.watch events.
EventNames ==
    { <<"m", ".", "y", "a", "m", "l">>,
      <<"M", ".", "Y", "M", "L">>,
      <<"r", ".", "m", "d">>,
      NullName }

\* String.prototype.toLowerCase on the characters the filenames use.
LowerChar(c) ==
    CASE c = "M" -> "m"
      [] c = "Y" -> "y"
      [] c = "L" -> "l"
      [] c = "A" -> "a"
      [] OTHER -> c

toLowerCase(s) == [i \in 1..Len(s) |-> LowerChar(s[i])]

\* path.extname: from the last "." to the end; "" when there is no "." or
\* when the only "." is the first character of the name.
extname(f) ==
    LET dots == {i \in 1..Len(f) : f[i] = "."}
    IN  IF dots = {} THEN <<>>
        ELSE LET last == CHOOSE i \in dots : \A j \in dots : j <= i
             IN  IF last = 1 THEN <<>> ELSE SubSeq(f, last, Len(f))

isYamlFile(filename) ==
    LET ext == toLowerCase(extname(filename))
    IN  ext = <<".", "y", "a", "m", "l">> \/ ext = <<".", "y", "m", "l">>

\* The event reports a filename and the filename does not end, in any letter
\* case, in .yaml or .yml.
HasSuffix(f, suf) ==
    /\ Len(f) >= Len(suf)
    /\ SubSeq(f, Len(f) - Len(suf) + 1, Len(f)) = suf

EndsInYaml(f) ==
    \/ HasSuffix(toLowerCase(f), <<".", "y", "a", "m", "l">>)
    \/ HasSuffix(toLowerCase(f), <<".", "y", "m", "l">>)

NamesOtherFile(f) == f # NullName /\ ~EndsInYaml(f)

\* The listener's test `filename === null || isYamlFile(filename)`.
QualifiesNamed(filename) == isYamlFile(filename)

Qualifies(filename) == filename = NullName \/ isYamlFile(filename)

\* ------------------------------------------------------------------- state
VARIABLES
    distUiDirExists,        \* the filesystem: dist-ui/ exists
    requirementsDirExists,  \* the filesystem: the requirements directory exists
    now,            \* the clock
    phase,          \* "init" | "watching" | "watchFailed" | "server" | "startFailed"
    thrown,         \* error thrown by the entry point, "none" if it returned
    closed,         \* file-watcher: `closed`
    debounceTimer,  \* file-watcher: <<>> (null) or <<due time>>
    watcher,        \* the FSWatcher subscription: "none" | "open" | "dead" | "closed"
    fsCloses,       \* number of FSWatcher.close() calls
    timeouts,       \* the due times of the setTimeout timers neither run nor cleared
    closeCalls,     \* number of calls of the handle's close()
    inflight,       \* fs.watch events raised by the platform, not yet delivered
    writes,         \* number of filesystem writes so far
    log,            \* summary of the history of qualifying events and onChange calls
    noYamlSeen,     \* every event handled while open named a file not ending in .yaml/.yml
    closeLog,       \* what happened around close(), see CloseLogInit
    watcherHandle,  \* ui-server: "null" | "handle"
    socket,         \* ui-server: "none" | "binding" | "listening" | "failed" | "closed"
    sseClients,     \* ui-server: the registry of response streams
    stream,         \* per stream: "new" | "open" | "gone" | "ended" | "closed"
    written,        \* per stream: the events written to it, in order
    response,       \* ui-server: the response to the latest file request
    mainRequirements,    \* store: the main collection
    derivedRequirements, \* store: the derived collection
    loading,        \* store: `loading`
    error,          \* store: `error`, NoError for null
    watching,       \* store: `watching`
    pollingTimer,   \* store module: 0 (null) or the interval's id
    eventSource,    \* store module: 0 (null) or the EventSource's id
    loadPc,         \* per loadFromFiles() call: "idle" | "fetching" | "done"
    sources,        \* per EventSource: "none" | "connecting" | "open" | "failed" | "closed"
    timers,         \* per interval: "none" | "live" | "cleared"
    startCalls,     \* number of startWatching() calls
    stopCalls,      \* number of stopWatching() calls
    mainOf,         \* the call that committed mainRequirements, 0 for none
    derivedOf,      \* the call that committed derivedRequirements, 0 for none
    mainSrc,        \* the decoded document mainRequirements was parsed from
    derivedSrc,     \* the decoded document derivedRequirements was parsed from
    lastLoad,       \* the latest call to finish, with the responses it got
    retries,        \* the calls started while the store showed an error
    input,          \* a function under study: the call, NoInput for none
    output,         \* what that call returned or threw, NoOutput before it
    mainYaml,       \* the filesystem: the decoded text of main.yaml
    derivedYaml,    \* the filesystem: the decoded text of derived.yaml
    fetched,        \* per loadFromFiles() call: the responses sent to it so far
    received,       \* store: change events its EventSource has dispatched
    hmrCleanup,     \* HMR store module: `hmrCleanup` is set (not null)
    hmrHandlers     \* HMR store module: handlers registered with hot.on

watcherVars == <<closed, debounceTimer, watcher, fsCloses, timeouts>>
serverVars == <<watcherHandle, socket, sseClients, stream, written>>
dirVars == <<distUiDirExists, requirementsDirExists>>
vars == <<distUiDirExists, requirementsDirExists, now, phase, thrown, closed, debounceTimer, watcher, fsCloses, timeouts,
          closeCalls, inflight, writes, log, noYamlSeen, closeLog, watcherHandle, socket, sseClients, stream, written,
          response, mainRequirements, derivedRequirements, loading, error, watching, pollingTimer, eventSource,
          loadPc, sources, timers, startCalls, stopCalls, mainOf, derivedOf, mainSrc, derivedSrc, lastLoad, retries,
          input, output, mainYaml, derivedYaml, fetched, received, hmrCleanup, hmrHandlers>>
pureVars == <<input, output>>
syncVars == <<mainYaml, derivedYaml, fetched>>
httpVars == <<response>>
storeVars == <<mainRequirements, derivedRequirements, loading, error, watching>>
loadVars == <<loadPc, mainOf, derivedOf, mainSrc, derivedSrc, lastLoad, retries>>
hmrVars == <<hmrCleanup, hmrHandlers>>
watchVars == <<pollingTimer, eventSource, sources, timers, startCalls, stopCalls, received, hmrVars>>
ghostVars == <<noYamlSeen, closeLog>>

Streams == 1..MaxStreams
Loads == 1..MaxLoads
Handles == 1..MaxHandles

\* The history summary.  An event here is a qualifying event the listener
\* handled while the watcher was open.
\*   handled    number of listener runs while open, for any filename
\*   events     number of events so far
\*   calls      number of onChange invocations so far
\*   lastEv     <<>> or <<time of the latest event>>
\*   sinceEv    number of onChange invocations since the latest event
\*   burst      length of the current run of events, each less than
\*              DebounceMs after the one before
\*   burstCalls number of onChange invocations since the first event of the
\*              current run
\*   separated  every event so far came more than DebounceMs after the one
\*              before
\*   ignoredPending  since the latest event or onChange invocation the
\*              listener has ignored an event while a timer was pending
\*   errors     number of 'error' events of the FSWatcher so far
\*   errEvents  the value of `events` at the latest 'error' event
\*   errPending a timer was pending at the latest 'error' event
LogInit ==
    [handled |-> 0, events |-> 0, calls |-> 0, lastEv |-> <<>>, sinceEv |-> 0,
     burst |-> 0, burstCalls |-> 0, separated |-> TRUE,
     ignoredPending |-> FALSE, errors |-> 0, errEvents |-> 0,
     errPending |-> FALSE]

Gap(l) == IF l.lastEv = <<>> THEN DebounceMs + 1 ELSE now - l.lastEv[1]

LogEvent(l) ==
    [handled |-> l.handled + 1, events |-> l.events + 1, calls |-> l.calls,
     lastEv |-> <<now>>, sinceEv |-> 0,
     burst |-> IF Gap(l) < DebounceMs THEN l.burst + 1 ELSE 1,
     burstCalls |-> IF Gap(l) < DebounceMs THEN l.burstCalls ELSE 0,
     separated |-> l.separated /\ Gap(l) > DebounceMs,
     ignoredPending |-> FALSE, errors |-> l.errors,
     errEvents |-> l.errEvents, errPending |-> l.errPending]

LogOther(l) ==
    [l EXCEPT !.handled = @ + 1,
              !.ignoredPending = @ \/ debounceTimer # <<>>]

LogError(l) ==
    [l EXCEPT !.errors = @ + 1, !.errEvents = l.events,
              !.errPending = (debounceTimer # <<>>)]

LogCall(l) ==
    [l EXCEPT !.calls = @ + 1, !.sinceEv = @ + 1, !.burstCalls = @ + 1,
              !.ignoredPending = FALSE]

\* What happened around the first close() of the watcher.
\*   pending    a debounce timer was pending when close() ran
\*   late       the listener has been called after close()
\*   wrote      a file was written after close()
CloseLogInit == [pending |-> FALSE, late |-> FALSE, wrote |-> FALSE]

\* `error` when it is null.
NoError == [cat |-> "none", file |-> "", index |-> -1, status |-> 0,
            errors |-> <<>>]

\* A decoded document, and the one standing for "no document".
Doc(top, reqs, entries) == [top |-> top, reqs |-> reqs, entries |-> entries]
NoDoc == Doc("none", "absent", <<>>)

\* A fetch response, and the record of a call that has not happened.
Res(status, body) == [status |-> status, body |-> body]
NoLoad == [call |-> 0, mainRes |-> Res(0, NoDoc), derivedRes |-> Res(0, NoDoc)]

\* The two requests of a call, neither answered.
NoFetch == [main |-> Res(0, NoDoc), derived |-> Res(0, NoDoc)]

\* No file request has been answered yet.
NoResponse == [route |-> "none", found |-> FALSE, status |-> 0]

\* No function is under study.
NoInput == [op |-> "none"]
NoOutput == [done |-> FALSE]

InitProgram ==
    /\ distUiDirExists \in BOOLEAN
    /\ requirementsDirExists \in BOOLEAN
    /\ now = 0
    /\ phase = "init"
    /\ thrown = "none"
    /\ closed = FALSE
    /\ debounceTimer = <<>>
    /\ watcher = "none"
    /\ fsCloses = 0
    /\ timeouts = {}
    /\ closeCalls = 0
    /\ inflight = <<>>
    /\ writes = 0
    /\ log = LogInit
    /\ noYamlSeen = TRUE
    /\ closeLog = CloseLogInit
    /\ watcherHandle = "null"
    /\ socket = "none"
    /\ sseClients = {}
    /\ stream = [s \in Streams |-> "new"]
    /\ written = [s \in Streams |-> <<>>]
    /\ response = NoResponse
    /\ mainRequirements = <<>>
    /\ derivedRequirements = <<>>
    /\ loading = FALSE
    /\ error = NoError
    /\ watching = FALSE
    /\ pollingTimer = 0
    /\ eventSource = 0
    /\ loadPc = [c \in Loads |-> "idle"]
    /\ sources = [h \in Handles |-> "none"]
    /\ timers = [h \in Handles |-> "none"]
    /\ startCalls = 0
    /\ stopCalls = 0
    /\ mainOf = 0
    /\ derivedOf = 0
    /\ mainSrc = NoDoc
    /\ derivedSrc = NoDoc
    /\ lastLoad = NoLoad
    /\ retries = {}
    /\ mainYaml = NoDoc
    /\ derivedYaml = NoDoc
    /\ fetched = [c \in Loads |-> NoFetch]
    /\ received = 0
    /\ hmrCleanup = FALSE
    /\ hmrHandlers = 0

Init ==
    /\ InitProgram
    /\ input = NoInput
    /\ output = NoOutput

\* ------------------------------------------------------------ file-watcher
\* watchRequirementsDir up to its return: "none" when it returns a handle,
\* otherwise the error it throws.  watchOk: fs.watch itself did not throw.
WatchOutcomeNoCheck(dirExists, watchOk) ==
    IF ~watchOk THEN "Failed to start file watcher" ELSE "none"

WatchOutcome(dirExists, watchOk) ==
    IF ~dirExists THEN "does not exist"
    ELSE IF ~watchOk THEN "Failed to start file watcher"
    ELSE "none"

\* The state watchRequirementsDir leaves behind for a given outcome.
WatchSetup(outcome) ==
    IF outcome = "none"
    THEN /\ closed' = FALSE
         /\ debounceTimer' = <<>>
         /\ watcher' = "open"
         /\ fsCloses' = fsCloses
         /\ timeouts' = timeouts
    ELSE UNCHANGED watcherVars

\* The timers a timer slot refers to.
Slot(timer) == {timer[i] : i \in DOMAIN timer}

\* clearTimeout(timer) on the live timers.
clearTimeoutNoop(live, timer) == live

clearTimeout(live, timer) == live \ Slot(timer)

\* debouncedOnChange: the timer slot after the call.
debouncedOnChangeKeep(isClosed, timer) ==
    IF isClosed THEN timer
    ELSE IF timer # <<>> THEN timer
    ELSE <<now + DebounceMs>>

debouncedOnChangeLong(isClosed, timer) ==
    IF isClosed THEN timer
    ELSE <<now + DebounceMs + DebounceMs>>

debouncedOnChange(isClosed, timer) ==
    IF isClosed THEN timer
    ELSE <<now + DebounceMs>>

\* The fs.watch listener: the timer slot after an event for `filename`.
ListenerNoFilter(filename) ==
    IF closed THEN debounceTimer
    ELSE debouncedOnChange(closed, debounceTimer)

ListenerPostponing(filename) ==
    IF closed THEN debounceTimer
    ELSE IF Qualifies(filename) THEN debouncedOnChange(closed, debounceTimer)
    ELSE IF debounceTimer # <<>> THEN <<now + DebounceMs>>
    ELSE debounceTimer

Listener(filename) ==
    IF closed THEN debounceTimer
    ELSE IF Qualifies(filename) THEN debouncedOnChange(closed, debounceTimer)
    ELSE debounceTimer

\* The handle's close().
WatcherCloseNoFlag ==
    /\ closed' = closed
    /\ debounceTimer' = <<>>
    /\ timeouts' = clearTimeout(timeouts, debounceTimer)
    /\ watcher' = "closed"
    /\ fsCloses' = fsCloses + 1

WatcherCloseNoGuard ==
    /\ closed' = TRUE
    /\ debounceTimer' = <<>>
    /\ timeouts' = clearTimeout(timeouts, debounceTimer)
    /\ watcher' = "closed"
    /\ fsCloses' = fsCloses + 1

WatcherClose ==
    IF closed THEN UNCHANGED watcherVars
    ELSE /\ closed' = TRUE
         /\ debounceTimer' = <<>>
         /\ timeouts' = clearTimeout(timeouts, debounceTimer)
         /\ watcher' = "closed"
         /\ fsCloses' = fsCloses + 1

\* The history around close(), kept by every caller of WatcherClose.
CloseLogged ==
    closeLog' = IF closed THEN closeLog
                ELSE [closeLog EXCEPT !.pending = (debounceTimer # <<>>)]

\* ---------------------------------------------------------------- ui-server
\* The watcher callback of startUiServer: one event per registered stream.
BroadcastAll(clients, w) ==
    [s \in Streams |-> Append(w[s], "requirements-changed")]

\* client.write(...) on one stream: what the stream gets.  A write to a
\* stream whose client has gone away fails: it returns false and sends
\* nothing.
WriteChange(s) ==
    IF stream[s] = "gone" THEN "write-failed" ELSE "requirements-changed"

BroadcastAborting(clients, w) ==
    [s \in Streams |->
        IF s \in clients /\ stream[s] = "gone" THEN Append(w[s], WriteChange(s))
        ELSE IF s \in clients /\ \A g \in clients : stream[g] # "gone"
        THEN Append(w[s], WriteChange(s))
        ELSE w[s]]

Broadcast(clients, w) ==
    [s \in Streams |->
        IF s \in clients THEN Append(w[s], WriteChange(s)) ELSE w[s]]

\* onChange as passed by the host: a bare callback for a direct caller of
\* watchRequirementsDir, the broadcast for the server.
OnChange ==
    /\ log' = LogCall(log)
    /\ written' = IF phase = "server" THEN Broadcast(sseClients, written)
                  ELSE written

\* ------------------------------------------------------------------ actions
\* A direct call of watchRequirementsDir(dir, onChange, {debounceMs}).
CallWatch(watchOk) ==
    /\ phase = "init"
    /\ LET outcome == WatchOutcome(requirementsDirExists, watchOk)
       IN  /\ WatchSetup(outcome)
           /\ thrown' = outcome
           /\ phase' = IF outcome = "none" THEN "watching" ELSE "watchFailed"
    /\ UNCHANGED <<syncVars, pureVars, httpVars, storeVars, loadVars, watchVars, dirVars, now, closeCalls, inflight, writes, log, ghostVars,
                   serverVars>>

\* The environment writes a file in the watched directory.  An open
\* subscription queues an event for it; a closed one raises none.
FsWrite(f) ==
    /\ watcher \in {"open", "closed"}
    /\ writes < MaxWrites
    /\ writes' = writes + 1
    /\ IF watcher = "open"
       THEN /\ Len(inflight) < MaxInflight
            /\ inflight' = Append(inflight, f)
            /\ UNCHANGED closeLog
       ELSE /\ closeLog' = [closeLog EXCEPT !.wrote = TRUE]
            /\ UNCHANGED inflight
    /\ UNCHANGED <<syncVars, pureVars, httpVars, storeVars, loadVars, watchVars, dirVars, now, phase, thrown, watcherVars, closeCalls, log,
                   noYamlSeen, serverVars>>

\* The platform delivers a queued event to the fs.watch listener.
Deliver ==
    /\ inflight # <<>>
    /\ debounceTimer' = Listener(Head(inflight))
    /\ timeouts' = IF closed \/ ~Qualifies(Head(inflight)) THEN timeouts
                   ELSE clearTimeout(timeouts, debounceTimer)
                            \cup Slot(debounceTimer')
    /\ inflight' = Tail(inflight)
    /\ log' = IF closed THEN log
              ELSE IF Qualifies(Head(inflight)) THEN LogEvent(log)
              ELSE LogOther(log)
    /\ noYamlSeen' = IF closed THEN noYamlSeen
                     ELSE noYamlSeen /\ NamesOtherFile(Head(inflight))
    /\ closeLog' = IF closed THEN [closeLog EXCEPT !.late = TRUE] ELSE closeLog
    /\ UNCHANGED <<syncVars, pureVars, httpVars, storeVars, loadVars, watchVars, dirVars, now, phase, thrown, closed, watcher, fsCloses,
                   closeCalls, writes, serverVars>>

\* The debounce timer expires and its callback runs.
TimerFire ==
    /\ \E t \in timeouts : now >= t /\ timeouts' = timeouts \ {t}
    /\ debounceTimer' = <<>>
    /\ IF ~closed THEN OnChange ELSE UNCHANGED <<log, written>>
    /\ UNCHANGED <<syncVars, pureVars, httpVars, storeVars, loadVars, watchVars, dirVars, now, phase, thrown, closed, watcher, fsCloses,
                   closeCalls, inflight, writes, ghostVars, watcherHandle,
                   socket, sseClients, stream>>

\* Time passes; a due timer runs before the clock moves on.
Tick ==
    /\ phase \in {"watching", "server"}
    /\ now < MaxTime
    /\ \A t \in timeouts : now < t
    /\ now' = now + 1
    /\ UNCHANGED <<syncVars, pureVars, httpVars, storeVars, loadVars, watchVars, dirVars, phase, thrown, watcherVars, closeCalls, inflight,
                   writes, log, ghostVars, serverVars>>

\* watcher.on("error"): the closed flag after the listener has run.  The
\* listener only logs.
watcherErrorClosing(isClosed) == TRUE

watcherError(isClosed) == isClosed

\* The FSWatcher emits 'error'.  Whether the platform keeps the subscription
\* delivering events afterwards is its own choice.
WatcherError(keeps) ==
    /\ phase = "watching"
    /\ watcher = "open"
    /\ log.errors < MaxErrors
    /\ closed' = watcherError(closed)
    /\ watcher' = IF keeps THEN "open" ELSE "dead"
    /\ log' = LogError(log)
    /\ UNCHANGED <<syncVars, pureVars, httpVars, storeVars, loadVars, watchVars, dirVars, now, phase, thrown, debounceTimer, fsCloses,
                   timeouts, closeCalls, inflight, writes, ghostVars, serverVars>>

\* A direct caller closes its handle.
HandleClose ==
    /\ phase = "watching"
    /\ closeCalls < MaxCloses
    /\ WatcherClose
    /\ CloseLogged
    /\ closeCalls' = closeCalls + 1
    /\ UNCHANGED <<syncVars, pureVars, httpVars, storeVars, loadVars, watchVars, dirVars, now, phase, thrown, inflight, writes, log,
                   noYamlSeen, serverVars>>

\* startUiServer(options) up to its throw, "none" when it goes on to set up.
StartOutcomeNoReq(distExists, reqExists) ==
    IF ~distExists THEN "UI assets not found" ELSE "none"

StartOutcome(distExists, reqExists) ==
    IF ~distExists THEN "UI assets not found"
    ELSE IF ~reqExists THEN "requirements not found"
    ELSE "none"

\* startUiServer(options) up to its return.  The bind requested by
\* server.listen(port) completes later, in ListenOk or ListenError.
StartUiServer(watchOk) ==
    /\ phase = "init"
    /\ LET outcome == StartOutcome(distUiDirExists, requirementsDirExists)
           watch == WatchOutcome(requirementsDirExists, watchOk)
       IN  IF outcome # "none"
           THEN /\ thrown' = outcome
                /\ phase' = "startFailed"
                /\ UNCHANGED <<watcherVars, serverVars>>
           ELSE /\ thrown' = "none"
                /\ phase' = "server"
                /\ sseClients' = {}
                /\ WatchSetup(watch)
                /\ watcherHandle' = IF watch = "none" THEN "handle" ELSE "null"
                /\ socket' = "binding"
                /\ UNCHANGED <<stream, written>>
    /\ UNCHANGED <<syncVars, pureVars, httpVars, storeVars, loadVars, watchVars, dirVars, now, closeCalls, inflight, writes, log, ghostVars>>

\* server.listen: the port is bound and the 'listening' callback runs.
ListenOk ==
    /\ socket = "binding"
    /\ socket' = "listening"
    /\ UNCHANGED <<syncVars, pureVars, httpVars, storeVars, loadVars, watchVars, dirVars, now, phase, thrown, watcherVars, closeCalls,
                   inflight, writes, log, ghostVars, watcherHandle, sseClients,
                   stream, written>>

\* server.on("error"): the bind failed (EADDRINUSE); the handler only logs.
ListenError ==
    /\ socket = "binding"
    /\ socket' = "failed"
    /\ UNCHANGED <<syncVars, pureVars, httpVars, storeVars, loadVars, watchVars, dirVars, now, phase, thrown, watcherVars, closeCalls,
                   inflight, writes, log, ghostVars, watcherHandle, sseClients,
                   stream, written>>

\* handleSSE writes the "connected" event to the stream it was given.
AcknowledgeNone(w, s) == w

Acknowledge(w, s) == [w EXCEPT ![s] = Append(@, "connected")]

\* The stream's "close" listener deletes it from the registry.
UnregisterKeep(clients, s) == clients

Unregister(clients, s) == clients \ {s}

\* GET /events on a new response stream: handleSSE(res, sseClients).
HandleSSE(s) ==
    /\ socket = "listening"
    /\ stream[s] = "new"
    /\ written' = Acknowledge(written, s)
    /\ sseClients' = sseClients \cup {s}
    /\ stream' = [stream EXCEPT ![s] = "open"]
    /\ UNCHANGED <<syncVars, pureVars, httpVars, storeVars, loadVars, watchVars, dirVars, now, phase, thrown, watcherVars, closeCalls,
                   inflight, writes, log, ghostVars, watcherHandle, socket>>

\* The client of an open stream goes away; the server has not yet observed
\* the stream's close.
ClientGone(s) ==
    /\ stream[s] = "open"
    /\ stream' = [stream EXCEPT ![s] = "gone"]
    /\ UNCHANGED <<syncVars, pureVars, httpVars, storeVars, loadVars, watchVars, dirVars, now, phase, thrown, watcherVars, closeCalls,
                   inflight, writes, log, ghostVars, watcherHandle, socket,
                   sseClients, written>>

\* res.on("close"): the stream's close is observed, after the client went
\* away or after the server ended the response.
StreamClosed(s) ==
    /\ stream[s] \in {"open", "gone", "ended"}
    /\ stream' = [stream EXCEPT ![s] = "closed"]
    /\ sseClients' = Unregister(sseClients, s)
    /\ UNCHANGED <<syncVars, pureVars, httpVars, storeVars, loadVars, watchVars, dirVars, now, phase, thrown, watcherVars, closeCalls,
                   inflight, writes, log, ghostVars, watcherHandle, socket,
                   written>>

\* The registry and the streams after the close() of the server handle:
\* client.end() for each registered stream, then sseClients.clear().
EndClients(clients) ==
    /\ stream' = [s \in Streams |-> IF s \in clients THEN "ended" ELSE stream[s]]
    /\ sseClients' = {}

\* watcherHandle?.close()
CloseWatcherHandleSkip == UNCHANGED watcherVars /\ UNCHANGED closeLog

CloseWatcherHandle ==
    IF watcherHandle = "handle"
    THEN WatcherClose /\ CloseLogged
    ELSE UNCHANGED watcherVars /\ UNCHANGED closeLog

\* server.close() without a callback: what the call throws.  A server that
\* is not running reports ERR_SERVER_NOT_RUNNING to the callback only.
serverCloseThrowing(sock) ==
    IF sock \in {"binding", "listening"} THEN "none"
    ELSE "ERR_SERVER_NOT_RUNNING"

serverClose(sock) == "none"

\* The close() of the handle startUiServer returned.
ServerClose ==
    /\ phase = "server"
    /\ closeCalls < MaxCloses
    /\ CloseWatcherHandle
    /\ EndClients(sseClients)
    /\ socket' = IF socket \in {"binding", "listening"} THEN "closed" ELSE socket
    /\ thrown' = serverClose(socket)
    /\ closeCalls' = closeCalls + 1
    /\ UNCHANGED <<syncVars, pureVars, httpVars, storeVars, loadVars, watchVars, dirVars, now, phase, inflight, writes, log,
                   noYamlSeen, watcherHandle, written>>

\* serveFile(filePath, res): the status written, given whether readFileSync
\* can read the file.
serveFileNoCatch(readable) == IF readable THEN 200 ELSE 500

serveFile(readable) == IF readable THEN 200 ELSE 404

\* GET /requirements/<file>: the request handler joins the name onto the
\* requirements directory and serves that path.
RequestRequirements(readable) ==
    /\ socket = "listening"
    /\ response' = [route |-> "requirements", found |-> readable,
                    status |-> serveFile(readable)]
    /\ UNCHANGED <<dirVars, now, phase, thrown, watcherVars, closeCalls,
                   inflight, writes, log, ghostVars, serverVars,
                   storeVars, loadVars, watchVars, pureVars, syncVars>>

\* GET of any other path: the file under dist-ui/ if it exists, index.html
\* otherwise; the chosen file is served the same way.
RequestStatic(pathExists, readable) ==
    /\ socket = "listening"
    /\ response' = [route |-> IF pathExists THEN "static" ELSE "index",
                    found |-> readable, status |-> serveFile(readable)]
    /\ UNCHANGED <<dirVars, now, phase, thrown, watcherVars, closeCalls,
                   inflight, writes, log, ghostVars, serverVars,
                   storeVars, loadVars, watchVars, pureVars, syncVars>>

Next ==
    \/ \E w \in BOOLEAN : CallWatch(w)
    \/ \E f \in EventNames : FsWrite(f)
    \/ Deliver
    \/ TimerFire
    \/ Tick
    \/ HandleClose
    \/ \E w \in BOOLEAN : StartUiServer(w)
    \/ ListenOk
    \/ ListenError
    \/ \E s \in Streams : HandleSSE(s)
    \/ \E s \in Streams : StreamClosed(s)
    \/ ServerClose

Spec == Init /\ [][Next]_vars

\* The server with its file routes, watching a directory in which one file is
\* written.
NextDoc ==
    \/ \E w \in BOOLEAN : StartUiServer(w)
    \/ ListenOk
    \/ ListenError
    \/ \E s \in Streams : HandleSSE(s)
    \/ \E s \in Streams : StreamClosed(s)
    \/ ServerClose
    \/ FsWrite(<<"m", ".", "y", "a", "m", "l">>)
    \/ Deliver
    \/ TimerFire
    \/ Tick
    \/ \E r \in BOOLEAN : RequestRequirements(r)
    \/ \E e \in BOOLEAN, r \in BOOLEAN : RequestStatic(e, r)

SpecDoc == Init /\ [][NextDoc]_vars

\* Both directories exist.
InitStore ==
    /\ Init
    /\ distUiDirExists
    /\ requirementsDirExists

\* The server with clients that go away before their close is observed.
NextGone ==
    \/ StartUiServer(TRUE)
    \/ ListenOk
    \/ \E s \in Streams : HandleSSE(s)
    \/ \E s \in Streams : ClientGone(s)
    \/ \E s \in Streams : StreamClosed(s)
    \/ FsWrite(<<"m", ".", "y", "a", "m", "l">>)
    \/ Deliver
    \/ TimerFire
    \/ Tick
    \/ ServerClose

SpecGone == InitStore /\ [][NextGone]_vars

\* The watcher on a platform whose events report no filename.
NextNull ==
    \/ \E w \in BOOLEAN : CallWatch(w)
    \/ FsWrite(NullName)
    \/ Deliver
    \/ TimerFire
    \/ Tick
    \/ HandleClose

SpecNull == Init /\ [][NextNull]_vars

\* The watcher on a platform whose FSWatcher reports errors.
ErrorNames == {<<"m", ".", "y", "a", "m", "l">>, <<"r", ".", "m", "d">>}

NextError ==
    \/ \E w \in BOOLEAN : CallWatch(w)
    \/ \E f \in ErrorNames : FsWrite(f)
    \/ Deliver
    \/ TimerFire
    \/ Tick
    \/ HandleClose
    \/ \E k \in BOOLEAN : WatcherError(k)

SpecError == Init /\ [][NextError]_vars

\* ------------------------------------------------- requirement validation
\* A JavaScript value as the validators see it: its type, its characters when
\* it is a string, its elements when it is an array.  Strings are tuples of
\* one-character strings.
Undefined == [t |-> "undefined", s |-> <<>>, a |-> <<>>]
Null == [t |-> "null", s |-> <<>>, a |-> <<>>]
Num == [t |-> "number", s |-> <<>>, a |-> <<>>]
Str(s) == [t |-> "string", s |-> s, a |-> <<>>]
Arr(a) == [t |-> "array", s |-> <<>>, a |-> a]

PRIORITIES == <<<<"h", "i", "g", "h">>, <<"m", "e", "d", "i", "u", "m">>, <<"l", "o", "w">>>>
STATUSES == <<<<"d", "r", "a", "f", "t">>, <<"r", "e", "v", "i", "e", "w">>, <<"a", "p", "p", "r", "o", "v", "e", "d">>>>
DERIVED_CATEGORIES ==
    <<<<"t", "e", "c", "h", "n", "i", "c", "a", "l">>, <<"o", "p", "e", "r", "a", "t", "i", "o", "n", "a", "l">>,
      <<"q", "u", "a", "l", "i", "t", "y">>, <<"c", "o", "n", "s", "t", "r", "a", "i", "n", "t">>>>

WhiteSpace == {" ", "\t", "\n"}

\* String.prototype.trim: drop the white space at both ends.
RECURSIVE TrimStart(_)
TrimStart(s) ==
    IF s # <<>> /\ Head(s) \in WhiteSpace THEN TrimStart(Tail(s)) ELSE s

RECURSIVE TrimEnd(_)
TrimEnd(s) ==
    IF s # <<>> /\ s[Len(s)] \in WhiteSpace
    THEN TrimEnd(SubSeq(s, 1, Len(s) - 1)) ELSE s

Trim(s) == TrimEnd(TrimStart(s))

Includes(allowed, s) == \E i \in DOMAIN allowed : allowed[i] = s

Violation(field, msg) == <<[field |-> field, msg |-> msg]>>

\* Each check yields no violation or one.
nonEmptyString(value, field) ==
    IF value.t # "string" \/ Trim(value.s) = <<>>
    THEN Violation(field, "must be a non-empty string") ELSE <<>>

oneOfAnyString(value, field, allowed) ==
    IF value.t # "string" THEN Violation(field, "must be a string") ELSE <<>>

oneOf(value, field, allowed) ==
    IF value.t # "string" THEN Violation(field, "must be a string")
    ELSE IF ~Includes(allowed, value.s) THEN Violation(field, "must be one of")
    ELSE <<>>

stringArray(value, field) ==
    IF value.t # "array" THEN Violation(field, "must be an array")
    ELSE IF \E i \in DOMAIN value.a :
                value.a[i].t # "string" \/ Trim(value.a[i].s) = <<>>
    THEN Violation(field, "must be an array of non-empty strings")
    ELSE <<>>

\* A requirement as decoded from YAML: whether it is an object at all, and
\* the value found under each property the validators read.
NotAnObject == Violation("", "Requirement must be an object")

\* The result object: valid exactly when no violation was collected.
ValidationResult(errors) == [valid |-> errors = <<>>, errors |-> errors]

FirstOf(errors) == IF errors = <<>> THEN <<>> ELSE <<Head(errors)>>

validateMainRequirementFailFast(raw) ==
    IF ~raw.obj THEN NotAnObject
    ELSE FirstOf(nonEmptyString(raw.id, "id")
                 \o nonEmptyString(raw.description, "description")
                 \o nonEmptyString(raw.userValue, "userValue")
                 \o oneOf(raw.priority, "priority", PRIORITIES)
                 \o oneOf(raw.status, "status", STATUSES))

\* validateMainRequirement(raw): the violations, in the order collected.
validateMainRequirement(raw) ==
    IF ~raw.obj THEN NotAnObject
    ELSE nonEmptyString(raw.id, "id")
         \o nonEmptyString(raw.description, "description")
         \o nonEmptyString(raw.userValue, "userValue")
         \o oneOf(raw.priority, "priority", PRIORITIES)
         \o oneOf(raw.status, "status", STATUSES)

\* validateDerivedRequirement(raw): the violations, in the order collected.
validateDerivedRequirement(raw) ==
    IF ~raw.obj THEN NotAnObject
    ELSE nonEmptyString(raw.id, "id")
         \o nonEmptyString(raw.description, "description")
         \o stringArray(raw.derivedFrom, "derivedFrom")
         \o nonEmptyString(raw.rationale, "rationale")
         \o oneOf(raw.category, "category", DERIVED_CATEGORIES)
         \o oneOf(raw.priority, "priority", PRIORITIES)
         \o oneOf(raw.status, "status", STATUSES)


\* ------------------------------------------------------- document parsing
\* What the YAML decoder makes of a file's text: it throws, or yields a value
\* whose kind is top; a mapping has a `requirements` property of kind reqs,
\* and when that is an array its elements are entries.
\* An error as reported to the caller: its category, the file it names, the
\* index of the entry and the entry's violations, or the HTTP status.
ParseError(cat, file) == [NoError EXCEPT !.cat = cat, !.file = file]
EntryError(file, i, errs) ==
    [NoError EXCEPT !.cat = "entry", !.file = file, !.index = i, !.errors = errs]
FetchError(file, status) ==
    [NoError EXCEPT !.cat = "fetch", !.file = file, !.status = status]

Returned(value) == [ok |-> TRUE, value |-> value, error |-> NoError]
Thrown(err) == [ok |-> FALSE, value |-> <<>>, error |-> err]

\* The loop over the entries: entry i (counted from 0) is validated and
\* pushed, and the first invalid one ends the parse.
RECURSIVE MainLoopKeepValid(_, _, _)
MainLoopKeepValid(entries, i, requirements) ==
    IF i >= Len(entries) THEN Returned(requirements)
    ELSE IF validateMainRequirement(entries[i + 1]) # <<>>
         THEN MainLoopKeepValid(entries, i + 1, requirements)
         ELSE MainLoopKeepValid(entries, i + 1,
                                Append(requirements, entries[i + 1]))

RECURSIVE MainLoopPrepend(_, _, _)
MainLoopPrepend(entries, i, requirements) ==
    IF i >= Len(entries) THEN Returned(requirements)
    ELSE LET errs == validateMainRequirement(entries[i + 1])
         IN  IF errs # <<>> THEN Thrown(EntryError("main.yaml", i, errs))
             ELSE MainLoopPrepend(entries, i + 1,
                                  <<entries[i + 1]>> \o requirements)

RECURSIVE MainLoopOneBased(_, _, _)
MainLoopOneBased(entries, i, requirements) ==
    IF i >= Len(entries) THEN Returned(requirements)
    ELSE LET errs == validateMainRequirement(entries[i + 1])
         IN  IF errs # <<>> THEN Thrown(EntryError("main.yaml", i + 1, errs))
             ELSE MainLoopOneBased(entries, i + 1,
                                   Append(requirements, entries[i + 1]))

RECURSIVE MainLoop(_, _, _)
MainLoop(entries, i, requirements) ==
    IF i >= Len(entries) THEN Returned(requirements)
    ELSE LET errs == validateMainRequirement(entries[i + 1])
         IN  IF errs # <<>> THEN Thrown(EntryError("main.yaml", i, errs))
             ELSE MainLoop(entries, i + 1, Append(requirements, entries[i + 1]))

RECURSIVE DerivedLoop(_, _, _)
DerivedLoop(entries, i, requirements) ==
    IF i >= Len(entries) THEN Returned(requirements)
    ELSE LET errs == validateDerivedRequirement(entries[i + 1])
         IN  IF errs # <<>> THEN Thrown(EntryError("derived.yaml", i, errs))
             ELSE DerivedLoop(entries, i + 1,
                              Append(requirements, entries[i + 1]))

parseMainRequirementsYaml(content) ==
    IF content.top = "throws" THEN Thrown(ParseError("yaml", ""))
    ELSE IF content.top \in {"nullish", "scalar"}
    THEN Thrown(ParseError("object", "main.yaml"))
    ELSE IF content.top = "seq" \/ content.reqs # "array"
    THEN Thrown(ParseError("array", "main.yaml"))
    ELSE MainLoop(content.entries, 0, <<>>)

parseDerivedRequirementsYaml(content) ==
    IF content.top = "throws" THEN Thrown(ParseError("yaml", ""))
    ELSE IF content.top \in {"nullish", "scalar"}
    THEN Thrown(ParseError("object", "derived.yaml"))
    ELSE IF content.top = "seq" \/ content.reqs # "array"
    THEN Thrown(ParseError("array", "derived.yaml"))
    ELSE DerivedLoop(content.entries, 0, <<>>)


\* -------------------------------------------------------------- the store
\* The files a fetch may find.
M1 == [obj |-> TRUE, id |-> Str(<<"m", "1">>), description |-> Str(<<"d">>),
       userValue |-> Str(<<"u">>), priority |-> Str(<<"h", "i", "g", "h">>),
       status |-> Str(<<"d", "r", "a", "f", "t">>)]
MBlankId == [M1 EXCEPT !.id = Str(<<" ">>)]
D1 == [obj |-> TRUE, id |-> Str(<<"d", "1">>), description |-> Str(<<"d">>),
       derivedFrom |-> Arr(<<Str(<<"m", "1">>)>>), rationale |-> Str(<<"r">>),
       category |-> Str(<<"q", "u", "a", "l", "i", "t", "y">>), priority |-> Str(<<"l", "o", "w">>),
       status |-> Str(<<"r", "e", "v", "i", "e", "w">>)]
DBadCategory == [D1 EXCEPT !.category = Str(<<"x">>)]

MainDocs ==
    { Doc("throws", "absent", <<>>), Doc("map", "absent", <<>>),
      Doc("map", "array", <<>>), Doc("map", "array", <<M1>>),
      Doc("map", "array", <<M1, MBlankId>>) }
DerivedDocs ==
    { Doc("nullish", "absent", <<>>), Doc("map", "array", <<>>),
      Doc("map", "array", <<D1>>), Doc("map", "array", <<DBadCategory, D1>>) }

\* A response carries its status and, when the file was served, the file.
Responses(docs) ==
    {Res(200, d) : d \in docs} \cup {Res(st, NoDoc) : st \in {404, 500}}

\* Response.ok
Ok(res) == res.status >= 200 /\ res.status <= 299

\* What the body of loadFromFiles() computes from the two responses: the two
\* collections, or the error its catch clause reports.
Loaded(main, derived) ==
    [ok |-> TRUE, main |-> main, derived |-> derived, error |-> NoError]
Failed(err) == [ok |-> FALSE, main |-> <<>>, derived |-> <<>>, error |-> err]

LoadOutcomeDerivedFirst(mainRes, derivedRes) ==
    IF ~Ok(derivedRes) THEN Failed(FetchError("derived.yaml", derivedRes.status))
    ELSE IF ~Ok(mainRes) THEN Failed(FetchError("main.yaml", mainRes.status))
    ELSE LET m == parseMainRequirementsYaml(mainRes.body)
             d == parseDerivedRequirementsYaml(derivedRes.body)
         IN  IF ~m.ok THEN Failed(m.error)
             ELSE IF ~d.ok THEN Failed(d.error)
             ELSE Loaded(m.value, d.value)

LoadOutcome(mainRes, derivedRes) ==
    IF ~Ok(mainRes) THEN Failed(FetchError("main.yaml", mainRes.status))
    ELSE IF ~Ok(derivedRes)
    THEN Failed(FetchError("derived.yaml", derivedRes.status))
    ELSE LET m == parseMainRequirementsYaml(mainRes.body)
             d == parseDerivedRequirementsYaml(derivedRes.body)
         IN  IF ~m.ok THEN Failed(m.error)
             ELSE IF ~d.ok THEN Failed(d.error)
             ELSE Loaded(m.value, d.value)

\* The outcome for every pair of responses a call may get.
MainResponses == Responses(MainDocs)
DerivedResponses == Responses(DerivedDocs)
Outcomes ==
    [m \in MainResponses, d \in DerivedResponses |-> LoadOutcome(m, d)]

\* The store's data as one record, with the record of where it came from.
StoreState ==
    [mainRequirements |-> mainRequirements,
     derivedRequirements |-> derivedRequirements,
     loading |-> loading, error |-> error,
     mainOf |-> mainOf, derivedOf |-> derivedOf,
     mainSrc |-> mainSrc, derivedSrc |-> derivedSrc]

\* The set() that ends call c: on success both collections at once with
\* loading and error, in the catch clause loading and error alone.
SetLoadedMainFirst(st, c, mainRes, derivedRes, outcome) ==
    IF outcome.ok
    THEN [st EXCEPT !.mainRequirements = outcome.main, !.loading = FALSE,
                    !.error = NoError, !.mainOf = c, !.mainSrc = mainRes.body]
    ELSE [st EXCEPT !.loading = FALSE, !.error = outcome.error]

SetLoadedClearing(st, c, mainRes, derivedRes, outcome) ==
    IF outcome.ok
    THEN [st EXCEPT !.mainRequirements = outcome.main,
                    !.derivedRequirements = outcome.derived,
                    !.loading = FALSE, !.error = NoError,
                    !.mainOf = c, !.derivedOf = c,
                    !.mainSrc = mainRes.body, !.derivedSrc = derivedRes.body]
    ELSE [st EXCEPT !.mainRequirements = <<>>, !.loading = FALSE,
                    !.error = outcome.error]

SetLoadedKeepError(st, c, mainRes, derivedRes, outcome) ==
    IF outcome.ok
    THEN [st EXCEPT !.mainRequirements = outcome.main,
                    !.derivedRequirements = outcome.derived,
                    !.loading = FALSE,
                    !.mainOf = c, !.derivedOf = c,
                    !.mainSrc = mainRes.body, !.derivedSrc = derivedRes.body]
    ELSE [st EXCEPT !.loading = FALSE, !.error = outcome.error]

SetLoadedNewestStart(st, c, mainRes, derivedRes, outcome) ==
    IF c < st.mainOf THEN [st EXCEPT !.loading = FALSE]
    ELSE IF outcome.ok
    THEN [st EXCEPT !.mainRequirements = outcome.main,
                    !.derivedRequirements = outcome.derived,
                    !.loading = FALSE, !.error = NoError,
                    !.mainOf = c, !.derivedOf = c,
                    !.mainSrc = mainRes.body, !.derivedSrc = derivedRes.body]
    ELSE [st EXCEPT !.loading = FALSE, !.error = outcome.error]

SetLoaded(st, c, mainRes, derivedRes, outcome) ==
    IF outcome.ok
    THEN [st EXCEPT !.mainRequirements = outcome.main,
                    !.derivedRequirements = outcome.derived,
                    !.loading = FALSE, !.error = NoError,
                    !.mainOf = c, !.derivedOf = c,
                    !.mainSrc = mainRes.body, !.derivedSrc = derivedRes.body]
    ELSE [st EXCEPT !.loading = FALSE, !.error = outcome.error]

\* Everything outside the store.
serverSide ==
    <<dirVars, now, phase, thrown, watcherVars, closeCalls, inflight, writes,
      log, ghostVars, serverVars, httpVars, pureVars, syncVars>>

\* loadFromFiles() up to its first await: the next call starts, sets
\* loading and clears error, and its two fetches are under way.
loadFromFiles ==
    /\ \E c \in Loads :
        /\ loadPc[c] = "idle"
        /\ \A b \in Loads : b < c => loadPc[b] # "idle"
        /\ loadPc' = [loadPc EXCEPT ![c] = "fetching"]
        /\ retries' = IF error # NoError THEN retries \cup {c} ELSE retries
    /\ loading' = TRUE
    /\ error' = NoError
    /\ UNCHANGED <<mainRequirements, derivedRequirements, watching, mainOf,
                   derivedOf, mainSrc, derivedSrc, lastLoad, serverSide>>

\* A direct call of loadFromFiles().
CallLoad ==
    /\ loadFromFiles
    /\ UNCHANGED watchVars

\* The rest of call c, once both fetches have answered.
FinishLoad(c, mainRes, derivedRes) ==
    /\ loadPc[c] = "fetching"
    /\ \E outcome \in {Outcomes[mainRes, derivedRes]} :
       \E st \in {SetLoaded(StoreState, c, mainRes, derivedRes, outcome)} :
           /\ mainRequirements' = st.mainRequirements
           /\ derivedRequirements' = st.derivedRequirements
           /\ loading' = st.loading
           /\ error' = st.error
           /\ mainOf' = st.mainOf
           /\ derivedOf' = st.derivedOf
           /\ mainSrc' = st.mainSrc
           /\ derivedSrc' = st.derivedSrc
    /\ loadPc' = [loadPc EXCEPT ![c] = "done"]
    /\ lastLoad' = [call |-> c, mainRes |-> mainRes, derivedRes |-> derivedRes]
    /\ UNCHANGED <<watching, retries, watchVars, serverSide>>


\* startWatching(): which mechanism a call sets up, given the `watching`
\* flag, whether the runtime has EventSource, and whether its constructor
\* throws.  A push connection once made, the call returns before the fallback.
OpensPushNoGuard(isWatching, esDefined, ctorThrows) ==
    esDefined /\ ~ctorThrows

OpensPush(isWatching, esDefined, ctorThrows) ==
    ~isWatching /\ esDefined /\ ~ctorThrows

StartsPollingNoReturn(isWatching, esDefined, ctorThrows) ==
    ~isWatching

StartsPolling(isWatching, esDefined, ctorThrows) ==
    ~isWatching /\ ~(esDefined /\ ~ctorThrows)

\* The next unused id of a table of handles, 0 when all are used.
NextHandle(table) ==
    IF \E h \in Handles : table[h] = "none"
    THEN CHOOSE h \in Handles :
            table[h] = "none" /\ \A g \in Handles : g < h => table[g] # "none"
    ELSE 0

StartWatching(esDefined, ctorThrows) ==
    LET push == OpensPush(watching, esDefined, ctorThrows)
        poll == StartsPolling(watching, esDefined, ctorThrows)
        es == NextHandle(sources)
        tm == NextHandle(timers)
    IN  /\ startCalls < MaxStarts
        /\ push => es # 0
        /\ poll => tm # 0
        /\ startCalls' = startCalls + 1
        /\ sources' = IF push THEN [sources EXCEPT ![es] = "connecting"]
                      ELSE sources
        /\ eventSource' = IF push THEN es ELSE eventSource
        /\ timers' = IF poll THEN [timers EXCEPT ![tm] = "live"] ELSE timers
        /\ pollingTimer' = IF poll THEN tm ELSE pollingTimer
        /\ watching' = (watching \/ push \/ poll)
        /\ UNCHANGED <<mainRequirements, derivedRequirements, loading, error,
                       loadVars, stopCalls, received, hmrVars, serverSide>>

\* stopWatching(): what becomes of the EventSource objects and of the
\* intervals, given the module's eventSource and pollingTimer.
ClosedSources(es, table) ==
    IF es # 0 THEN [table EXCEPT ![es] = "closed"] ELSE table

ClearedTimersNoClear(timer, table) == table

ClearedTimers(timer, table) ==
    IF timer # 0 THEN [table EXCEPT ![timer] = "cleared"] ELSE table

\* The module variable after stopWatching() has released what it held:
\* `eventSource = null`, `pollingTimer = null`.
ReleasedKept(handle) == handle

Released(handle) == 0

\* A call that finds the store not watching returns at once.
StopWatching ==
    /\ stopCalls < MaxStops
    /\ stopCalls' = stopCalls + 1
    /\ IF watching
       THEN /\ sources' = ClosedSources(eventSource, sources)
            /\ eventSource' = Released(eventSource)
            /\ timers' = ClearedTimers(pollingTimer, timers)
            /\ pollingTimer' = Released(pollingTimer)
            /\ watching' = FALSE
       ELSE UNCHANGED <<sources, eventSource, timers, pollingTimer, watching>>
    /\ UNCHANGED <<mainRequirements, derivedRequirements, loading, error,
                   loadVars, startCalls, received, hmrVars, serverSide>>

\* The browser's side of an EventSource: the connection opens; it cannot be
\* made and the browser gives up (readyState CLOSED); an open one drops and
\* the browser reconnects.  The store's onerror handler only logs.
EsOpen(h) ==
    /\ sources[h] = "connecting"
    /\ sources' = [sources EXCEPT ![h] = "open"]
    /\ UNCHANGED <<storeVars, loadVars, pollingTimer, eventSource, timers,
                   startCalls, stopCalls, received, hmrVars, serverSide>>

EsFail(h) ==
    /\ sources[h] = "connecting"
    /\ sources' = [sources EXCEPT ![h] = "failed"]
    /\ UNCHANGED <<storeVars, loadVars, pollingTimer, eventSource, timers,
                   startCalls, stopCalls, received, hmrVars, serverSide>>

EsDrop(h) ==
    /\ sources[h] = "open"
    /\ sources' = [sources EXCEPT ![h] = "connecting"]
    /\ UNCHANGED <<storeVars, loadVars, pollingTimer, eventSource, timers,
                   startCalls, stopCalls, received, hmrVars, serverSide>>

\* A "requirements-changed" event arrives on an open EventSource.
SseEvent(h) ==
    /\ sources[h] = "open"
    /\ loadFromFiles
    /\ UNCHANGED watchVars

\* An interval that has not been cleared fires.
PollTick(h) ==
    /\ timers[h] = "live"
    /\ loadFromFiles
    /\ UNCHANGED watchVars

\* The store under direct calls of loadFromFiles(), each answered by any pair
\* of responses.
NextLoad ==
    \/ CallLoad
    \/ \E c \in Loads, m \in MainResponses, d \in DerivedResponses :
            FinishLoad(c, m, d)

LoadSpec == InitStore /\ [][NextLoad]_vars

\* The store under startWatching() and stopWatching(), with the loads its
\* listener and its interval start; main.yaml is served or missing.
WatchedMain == {Res(200, Doc("map", "array", <<M1>>)), Res(404, NoDoc)}
WatchedDerived == {Res(200, Doc("map", "array", <<D1>>))}

NextWatch ==
    \/ \E e \in BOOLEAN, t \in BOOLEAN : StartWatching(e, t)
    \/ StopWatching
    \/ \E h \in Handles : EsOpen(h)
    \/ \E h \in Handles : EsFail(h)
    \/ \E h \in Handles : EsDrop(h)
    \/ \E h \in Handles : SseEvent(h)
    \/ \E h \in Handles : PollTick(h)
    \/ \E c \in Loads, m \in WatchedMain, d \in WatchedDerived :
            FinishLoad(c, m, d)

WatchSpec == InitStore /\ [][NextWatch]_vars

\* The HMR-based store (stores/requirements-store.ts).  Its loadFromFiles
\* is the same function; its push mechanism is a handler registered with
\* Vite's hot.on, its fallback the same interval.
\* startWatching(), given whether import.meta.hot is defined.
HmrStartWatching(hot) ==
    LET tm == NextHandle(timers)
    IN  /\ startCalls < MaxStarts
        /\ startCalls' = startCalls + 1
        /\ IF watching
           THEN UNCHANGED <<hmrHandlers, hmrCleanup, timers, pollingTimer,
                            watching>>
           ELSE /\ ~hot => tm # 0
                /\ hmrHandlers' = IF hot THEN hmrHandlers + 1 ELSE hmrHandlers
                /\ hmrCleanup' = IF hot THEN TRUE ELSE hmrCleanup
                /\ timers' = IF hot THEN timers
                             ELSE [timers EXCEPT ![tm] = "live"]
                /\ pollingTimer' = IF hot THEN pollingTimer ELSE tm
                /\ watching' = TRUE
        /\ UNCHANGED <<mainRequirements, derivedRequirements, loading, error,
                       loadVars, eventSource, sources, stopCalls, received,
                       serverSide>>

\* hmrCleanup(): the function startWatching stored; its body is empty.
\* The handlers registered with hot.on after the call.
hmrCleanupCall(handlers) == handlers

\* stopWatching()
HmrStopWatching ==
    /\ stopCalls < MaxStops
    /\ stopCalls' = stopCalls + 1
    /\ IF watching
       THEN /\ timers' = ClearedTimers(pollingTimer, timers)
            /\ pollingTimer' = 0
            /\ hmrHandlers' = IF hmrCleanup THEN hmrCleanupCall(hmrHandlers)
                               ELSE hmrHandlers
            /\ hmrCleanup' = FALSE
            /\ watching' = FALSE
       ELSE UNCHANGED <<timers, pollingTimer, hmrHandlers, hmrCleanup, watching>>
    /\ UNCHANGED <<mainRequirements, derivedRequirements, loading, error,
                   loadVars, eventSource, sources, startCalls, received,
                   serverSide>>

\* Vite delivers a 'design-duck:requirements-changed' event: a registered
\* handler runs.
HmrEvent ==
    /\ hmrHandlers >= 1
    /\ loadFromFiles
    /\ UNCHANGED watchVars

NextHmr ==
    \/ \E hot \in BOOLEAN : HmrStartWatching(hot)
    \/ HmrStopWatching
    \/ HmrEvent
    \/ \E h \in Handles : PollTick(h)
    \/ \E c \in Loads, m \in WatchedMain, d \in WatchedDerived :
            FinishLoad(c, m, d)

HmrSpec == InitStore /\ [][NextHmr]_vars

\* ------------------------------------------------- the parser on its own
\* Entries a requirements array may hold.
MaxEntries == 3

M2 == [M1 EXCEPT !.id = Str(<<"m", "2">>), !.priority = Str(<<"l", "o", "w">>)]
MNotObject == [obj |-> FALSE, id |-> Undefined, description |-> Undefined,
               userValue |-> Undefined, priority |-> Undefined,
               status |-> Undefined]
D2 == [D1 EXCEPT !.id = Str(<<"d", "2">>), !.category = Str(<<"t", "e", "c", "h", "n", "i", "c", "a", "l">>)]
DNotObject == [obj |-> FALSE, id |-> Undefined, description |-> Undefined,
               derivedFrom |-> Undefined, rationale |-> Undefined,
               category |-> Undefined, priority |-> Undefined,
               status |-> Undefined]

MainEntries == {M1, M2, MBlankId, MNotObject}
DerivedEntries == {D1, D2, DBadCategory, DNotObject}

SeqsUpTo(S, n) == UNION {[1..k -> S] : k \in 0..n}

\* The decoder throws; the document is empty or null, a scalar, a sequence, a
\* mapping without `requirements`, a mapping whose `requirements` is a scalar.
Shapes ==
    { Doc("throws", "absent", <<>>), Doc("nullish", "absent", <<>>),
      Doc("scalar", "absent", <<>>), Doc("seq", "absent", <<>>),
      Doc("map", "absent", <<>>), Doc("map", "scalar", <<>>) }

ParseDocs(entries) ==
    Shapes \cup {Doc("map", "array", e) : e \in SeqsUpTo(entries, MaxEntries)}

ParseInputs ==
    {[op |-> "parseMain", arg |-> d] : d \in ParseDocs(MainEntries)}
    \cup {[op |-> "parseDerived", arg |-> d] : d \in ParseDocs(DerivedEntries)}

ParseMain ==
    /\ input.op = "parseMain"
    /\ ~output.done
    /\ output' = [done |-> TRUE,
                  result |-> parseMainRequirementsYaml(input.arg)]
    /\ UNCHANGED <<input, storeVars, loadVars, watchVars, dirVars, now, phase,
                   thrown, watcherVars, closeCalls, inflight, writes, log,
                   ghostVars, serverVars, httpVars, syncVars>>

ParseDerived ==
    /\ input.op = "parseDerived"
    /\ ~output.done
    /\ output' = [done |-> TRUE,
                  result |-> parseDerivedRequirementsYaml(input.arg)]
    /\ UNCHANGED <<input, storeVars, loadVars, watchVars, dirVars, now, phase,
                   thrown, watcherVars, closeCalls, inflight, writes, log,
                   ghostVars, serverVars, httpVars, syncVars>>

InitParse ==
    /\ InitProgram
    /\ distUiDirExists
    /\ requirementsDirExists
    /\ input \in ParseInputs
    /\ output = NoOutput

NextParse ==
    \/ ParseMain
    \/ ParseDerived

ParseSpec == InitParse /\ [][NextParse]_vars


\* ---------------------------------------------- the validators on their own
\* Values a property of a requirement may have.
TextSamples == {Undefined, Num, Str(<<" ">>), Str(<<"a">>)}
FewTextSamples == {Null, Str(<<"\t", "b", " ">>)}
PrioritySamples ==
    {Undefined, Num, Str(<<"h", "i", "g", "h">>), Str(<<"m", "e", "d", "i", "u", "m">>),
     Str(<<"l", "o", "w">>), Str(<<"d", "r", "a", "f", "t">>)}
StatusSamples ==
    {Null, Str(<<"d", "r", "a", "f", "t">>), Str(<<"r", "e", "v", "i", "e", "w">>),
     Str(<<"a", "p", "p", "r", "o", "v", "e", "d">>), Str(<<"D", "r", "a", "f", "t">>)}
CategorySamples ==
    {Num, Str(<<"t", "e", "c", "h", "n", "i", "c", "a", "l">>), Str(<<"o", "p", "e", "r", "a", "t", "i", "o", "n", "a", "l">>),
     Str(<<"q", "u", "a", "l", "i", "t", "y">>), Str(<<"c", "o", "n", "s", "t", "r", "a", "i", "n", "t">>), Str(<<"l", "o", "w">>)}
DerivedFromSamples ==
    {Undefined, Str(<<"a">>), Arr(<<>>), Arr(<<Str(<<"a">>)>>),
     Arr(<<Str(<<"a">>), Str(<<" ">>)>>), Arr(<<Num>>)}

MainRaws ==
    {MNotObject} \cup
    [obj : {TRUE}, id : TextSamples, description : TextSamples,
     userValue : TextSamples, priority : PrioritySamples,
     status : StatusSamples]

DerivedRaws ==
    {DNotObject} \cup
    [obj : {TRUE}, id : TextSamples, description : FewTextSamples,
     derivedFrom : DerivedFromSamples, rationale : FewTextSamples \cup {Num},
     category : CategorySamples, priority : PrioritySamples,
     status : StatusSamples]

ValidateInputs ==
    {[op |-> "validateMain", arg |-> r] : r \in MainRaws}
    \cup {[op |-> "validateDerived", arg |-> r] : r \in DerivedRaws}

ValidateMain ==
    /\ input.op = "validateMain"
    /\ ~output.done
    /\ output' = [done |-> TRUE,
                  result |-> ValidationResult(validateMainRequirement(input.arg))]
    /\ UNCHANGED <<input, storeVars, loadVars, watchVars, dirVars, now, phase,
                   thrown, watcherVars, closeCalls, inflight, writes, log,
                   ghostVars, serverVars, httpVars, syncVars>>

ValidateDerived ==
    /\ input.op = "validateDerived"
    /\ ~output.done
    /\ output' = [done |-> TRUE,
                  result |->
                    ValidationResult(validateDerivedRequirement(input.arg))]
    /\ UNCHANGED <<input, storeVars, loadVars, watchVars, dirVars, now, phase,
                   thrown, watcherVars, closeCalls, inflight, writes, log,
                   ghostVars, serverVars, httpVars, syncVars>>

InitValidate ==
    /\ InitProgram
    /\ distUiDirExists
    /\ requirementsDirExists
    /\ input \in ValidateInputs
    /\ output = NoOutput

NextValidate ==
    \/ ValidateMain
    \/ ValidateDerived

ValidateSpec == InitValidate /\ [][NextValidate]_vars


\* ---------------------------------------------------- the validate command
\* A file of the requirements directory: missing, present but unreadable, or
\* a file with its decoded text.
File(state, doc) == [state |-> state, doc |-> doc]
Files(docs) ==
    {File("missing", NoDoc), File("unreadable", NoDoc)}
    \cup {File("file", d) : d \in docs}

\* readMainRequirements / readDerivedRequirements: read the file and parse
\* it; ENOENT is rethrown as "not found", any other error as it is.
readMainRequirements(file) ==
    IF file.state = "missing" THEN Thrown(ParseError("notfound", "main.yaml"))
    ELSE IF file.state = "unreadable" THEN Thrown(ParseError("io", ""))
    ELSE parseMainRequirementsYaml(file.doc)

readDerivedRequirements(file) ==
    IF file.state = "missing"
    THEN Thrown(ParseError("notfound", "derived.yaml"))
    ELSE IF file.state = "unreadable" THEN Thrown(ParseError("io", ""))
    ELSE parseDerivedRequirementsYaml(file.doc)

\* What a run reports about one file, and what it reports of a file it never
\* looked at.
Report(read) == [checked |-> TRUE, ok |-> read.ok, error |-> read.error]
NotChecked == [checked |-> FALSE, ok |-> FALSE, error |-> NoError]

\* validate(targetDir): the exit code with the two reports.
validateStopAtFirst(reqDirExists, mainFile, derivedFile) ==
    IF ~reqDirExists
    THEN [exitCode |-> 1, main |-> NotChecked, derived |-> NotChecked]
    ELSE LET m == readMainRequirements(mainFile)
             d == readDerivedRequirements(derivedFile)
         IN  IF ~m.ok
             THEN [exitCode |-> 1, main |-> Report(m), derived |-> NotChecked]
             ELSE [exitCode |-> IF ~d.ok THEN 1 ELSE 0,
                   main |-> Report(m), derived |-> Report(d)]

validate(reqDirExists, mainFile, derivedFile) ==
    IF ~reqDirExists
    THEN [exitCode |-> 1, main |-> NotChecked, derived |-> NotChecked]
    ELSE LET m == readMainRequirements(mainFile)
             d == readDerivedRequirements(derivedFile)
             hasErrors == ~m.ok \/ ~d.ok
         IN  [exitCode |-> IF hasErrors THEN 1 ELSE 0,
              main |-> Report(m), derived |-> Report(d)]

CommandInputs ==
    [op : {"validate"}, dir : BOOLEAN,
     main : Files(MainDocs \cup Shapes),
     derived : Files(DerivedDocs \cup Shapes)]

RunValidate ==
    /\ input.op = "validate"
    /\ ~output.done
    /\ output' = [done |-> TRUE,
                  result |-> validate(input.dir, input.main, input.derived)]
    /\ UNCHANGED <<input, storeVars, loadVars, watchVars, dirVars, now, phase,
                   thrown, watcherVars, closeCalls, inflight, writes, log,
                   ghostVars, serverVars, httpVars, syncVars>>

InitCommand ==
    /\ InitProgram
    /\ distUiDirExists
    /\ requirementsDirExists
    /\ input \in CommandInputs
    /\ output = NoOutput

NextCommand == RunValidate

CommandSpec == InitCommand /\ [][NextCommand]_vars


\* ------------------------------------------------ server and store together
\* The contents the two files may be given, all of them valid.
MainYamls == {Doc("map", "array", <<>>), Doc("map", "array", <<M1>>)}
DerivedYamls == {Doc("map", "array", <<>>), Doc("map", "array", <<D1>>)}

MainYamlName == <<"m", ".", "y", "a", "m", "l">>
DerivedYamlName == <<"d", ".", "y", "a", "m", "l">>

\* The stream of the store's EventSource, and the change events written to
\* a stream so far.
StoreStream == 1
ChangesWritten(w) ==
    Cardinality({i \in DOMAIN w : w[i] = "requirements-changed"})

\* An editor gives one of the files a new content; the platform queues the
\* event for the open subscription.
WriteYaml(which, doc) ==
    /\ watcher = "open"
    /\ writes < MaxWrites
    /\ Len(inflight) < MaxInflight
    /\ writes' = writes + 1
    /\ IF which = "main"
       THEN /\ doc \in MainYamls \ {mainYaml}
            /\ mainYaml' = doc
            /\ inflight' = Append(inflight, MainYamlName)
            /\ UNCHANGED derivedYaml
       ELSE /\ doc \in DerivedYamls \ {derivedYaml}
            /\ derivedYaml' = doc
            /\ inflight' = Append(inflight, DerivedYamlName)
            /\ UNCHANGED mainYaml
    /\ UNCHANGED <<fetched, pureVars, httpVars, storeVars, loadVars, watchVars,
                   dirVars, now, phase, thrown, watcherVars, closeCalls, log,
                   ghostVars, serverVars>>

\* The store's EventSource dispatches the next change event of its stream
\* to the "requirements-changed" listener.
ReceiveChange ==
    /\ eventSource # 0
    /\ sources[eventSource] = "open"
    /\ received < ChangesWritten(written[StoreStream])
    /\ received' = received + 1
    /\ loadFromFiles
    /\ UNCHANGED <<pollingTimer, eventSource, sources, timers, startCalls,
                   stopCalls, hmrVars>>

\* The server answers one of the two requests of call c with the file as it
\* is now.
ServeFetch(c, which) ==
    /\ socket = "listening"
    /\ loadPc[c] = "fetching"
    /\ fetched[c][which].status = 0
    /\ fetched' = [fetched EXCEPT ![c][which] =
                        Res(serveFile(TRUE),
                            IF which = "main" THEN mainYaml ELSE derivedYaml)]
    /\ response' = [route |-> "requirements", found |-> TRUE,
                    status |-> serveFile(TRUE)]
    /\ UNCHANGED <<mainYaml, derivedYaml, pureVars, storeVars, loadVars,
                   watchVars, dirVars, now, phase, thrown, watcherVars,
                   closeCalls, inflight, writes, log, ghostVars, serverVars>>

\* Both responses of call c have arrived and the call runs to its end.
CompleteLoad(c) ==
    /\ fetched[c].main.status # 0
    /\ fetched[c].derived.status # 0
    /\ FinishLoad(c, fetched[c].main, fetched[c].derived)

\* The server is listening with its watcher open, and the store is watching
\* over the open EventSource of stream 1.
InitSync ==
    /\ distUiDirExists = TRUE
    /\ requirementsDirExists = TRUE
    /\ now = 0
    /\ phase = "server"
    /\ thrown = "none"
    /\ closed = FALSE
    /\ debounceTimer = <<>>
    /\ watcher = "open"
    /\ fsCloses = 0
    /\ timeouts = {}
    /\ closeCalls = 0
    /\ inflight = <<>>
    /\ writes = 0
    /\ log = LogInit
    /\ noYamlSeen = TRUE
    /\ closeLog = CloseLogInit
    /\ watcherHandle = "handle"
    /\ socket = "listening"
    /\ sseClients = {StoreStream}
    /\ stream = [s \in Streams |-> IF s = StoreStream THEN "open" ELSE "new"]
    /\ written = [s \in Streams |->
                    IF s = StoreStream THEN <<"connected">> ELSE <<>>]
    /\ response = NoResponse
    /\ mainRequirements = <<>>
    /\ derivedRequirements = <<>>
    /\ loading = FALSE
    /\ error = NoError
    /\ watching = TRUE
    /\ pollingTimer = 0
    /\ eventSource = 1
    /\ loadPc = [c \in Loads |-> "idle"]
    /\ sources = [h \in Handles |-> IF h = 1 THEN "open" ELSE "none"]
    /\ timers = [h \in Handles |-> "none"]
    /\ startCalls = 1
    /\ stopCalls = 0
    /\ mainOf = 0
    /\ derivedOf = 0
    /\ mainSrc = NoDoc
    /\ derivedSrc = NoDoc
    /\ lastLoad = NoLoad
    /\ retries = {}
    /\ input = NoInput
    /\ output = NoOutput
    /\ mainYaml = Doc("map", "array", <<M1>>)
    /\ derivedYaml = Doc("map", "array", <<D1>>)
    /\ fetched = [c \in Loads |-> NoFetch]
    /\ received = 0
    /\ hmrCleanup = FALSE
    /\ hmrHandlers = 0

NextSync ==
    \/ \E which \in {"main", "derived"}, doc \in MainYamls \cup DerivedYamls :
            WriteYaml(which, doc)
    \/ Deliver
    \/ TimerFire
    \/ Tick
    \/ ReceiveChange
    \/ \E c \in Loads, which \in {"main", "derived"} : ServeFetch(c, which)
    \/ \E c \in Loads : CompleteLoad(c)

SyncSpec == InitSync /\ [][NextSync]_vars


\* ------------------------------------------------------------------ claims
RegisteredEvents(w) == {n \in 1..Len(w) : w[n] = "requirements-changed"}

\* C1: in a burst of qualifying events, each less than DebounceMs after the
\* one before, onChange is not invoked between the events of the burst; it is
\* invoked exactly once for the burst, no earlier than DebounceMs after the
\* last event, and (the watcher still open) it has been invoked once the
\* clock is past that instant.
C1_BurstYieldsOneCall ==
    log.burst >= 1 =>
        /\ log.burstCalls = log.sinceEv
        /\ log.burstCalls <= 1
        /\ log.burstCalls = 1 => now >= log.lastEv[1] + DebounceMs
        /\ (~closed /\ now > log.lastEv[1] + DebounceMs) => log.burstCalls = 1

C1_Witness ==
    /\ ~closed
    /\ log.burst >= 3
    /\ log.burstCalls = 1
    /\ log.calls = 1

\* C2: while the watcher is open and every qualifying event came more than
\* DebounceMs after the one before, each event is followed by its own
\* onChange invocation before the next event: N events yield N invocations.
C2_SeparatedEventsYieldNCalls ==
    (log.separated /\ log.events >= 1 /\ closeCalls = 0) =>
        /\ log.calls = log.events - (1 - log.sinceEv)
        /\ log.sinceEv <= 1
        /\ now > log.lastEv[1] + DebounceMs => log.calls = log.events

C2_Witness ==
    /\ log.separated
    /\ closeCalls = 0
    /\ log.events >= 2
    /\ log.calls = log.events

\* C3: as long as every event handled named a file that does not end in
\* .yaml or .yml, onChange has not been invoked, whatever the clock says; and
\* no such filename passes the extension test.
C3_OtherFilesNeverCall ==
    /\ noYamlSeen => (log.calls = 0 /\ debounceTimer = <<>>)
    /\ \A f \in FileNames : ~EndsInYaml(f) => ~Qualifies(f)

C3_Witness ==
    /\ noYamlSeen
    /\ log.handled >= 2
    /\ now > DebounceMs
    /\ ~closed

\* C4: once close() has returned, onChange is never invoked again and no
\* debounce timer is armed again.
C4_CloseThenSilence ==
    [][(closeCalls >= 1 /\ watcher # "none") =>
         (log'.calls = log.calls /\ debounceTimer' = <<>>)]_vars

C4_Witness ==
    /\ phase = "watching"
    /\ closeCalls >= 1
    /\ closeLog.pending
    /\ closeLog.late
    /\ closeLog.wrote
    /\ now > DebounceMs

\* C5: after any number (at least one) of close() calls the watcher is in
\* the state one call leaves: closed, no timer pending, the subscription
\* closed exactly once, nothing thrown.
C5_CloseIdempotent ==
    (watcher # "none" /\ closeCalls >= 1) =>
        /\ closed
        /\ debounceTimer = <<>>
        /\ watcher = "closed"
        /\ fsCloses = 1
        /\ thrown = "none"

C5_Witness ==
    /\ phase = "watching"
    /\ closeCalls >= 2

\* C6: a direct call of watchRequirementsDir on a missing directory throws
\* the 'does not exist' error, and then there is no subscription, no timer
\* and no onChange invocation.
C6_MissingDirThrows ==
    (phase \in {"watching", "watchFailed"} /\ ~requirementsDirExists) =>
        /\ phase = "watchFailed"
        /\ thrown = "does not exist"
        /\ watcher = "none"
        /\ debounceTimer = <<>>
        /\ inflight = <<>>
        /\ log.calls = 0

C6_Witness ==
    /\ phase = "watchFailed"
    /\ thrown = "does not exist"

\* C7: every onChange invocation of the server's watcher appends exactly one
\* 'requirements-changed' event to each stream registered at that moment and
\* nothing to any other stream; no such event is written at any other time,
\* so a stream never holds more of them than there were invocations.
C7_BroadcastFanOut ==
    /\ [][/\ (phase = "server" /\ log'.calls # log.calls) =>
               written' = [s \in Streams |->
                              IF s \in sseClients
                              THEN Append(written[s], "requirements-changed")
                              ELSE written[s]]
          /\ log'.calls = log.calls =>
               \A s \in Streams :
                   RegisteredEvents(written'[s]) = RegisteredEvents(written[s])]_vars
    /\ [](\A s \in Streams : Cardinality(RegisteredEvents(written[s])) <= log.calls)

C7_Witness ==
    \E s, t \in Streams :
        /\ s # t
        /\ log.calls = 1
        /\ written[s] = <<"connected", "requirements-changed">>
        /\ written[t] = <<"connected">>
        /\ stream[t] = "closed"

\* C8: once the server's close() has returned, the watcher is stopped (closed,
\* subscription closed, no timer), no stream is open or registered, the
\* socket accepts nothing, and from then on nothing is written to any stream
\* and the registry stays empty.
C8_ServerCloseStopsAll ==
    /\ []((phase = "server" /\ closeCalls >= 1) =>
            /\ sseClients = {}
            /\ socket \notin {"binding", "listening"}
            /\ \A s \in Streams : stream[s] # "open"
            /\ watcherHandle = "handle" =>
                 (closed /\ watcher = "closed" /\ debounceTimer = <<>>))
    /\ [][(phase = "server" /\ closeCalls >= 1) =>
            (written' = written /\ log'.calls = log.calls /\ sseClients' = {})]_vars

C8_Witness ==
    /\ phase = "server"
    /\ closeCalls >= 1
    /\ closeLog.pending
    /\ now > DebounceMs
    /\ \A s \in Streams : stream[s] = "ended" /\ written[s] = <<"connected">>

\* C9: when dist-ui/ or the requirements directory is missing, startUiServer
\* throws, and no watcher, no timer, no registry entry and no socket exist.
C9_StartFailsFast ==
    (phase \in {"server", "startFailed"}
        /\ (~distUiDirExists \/ ~requirementsDirExists)) =>
        /\ phase = "startFailed"
        /\ thrown \in {"UI assets not found", "requirements not found"}
        /\ watcher = "none"
        /\ watcherHandle = "null"
        /\ debounceTimer = <<>>
        /\ socket = "none"
        /\ sseClients = {}
        /\ log.calls = 0

C9_Witness ==
    /\ phase = "startFailed"
    /\ thrown = "requirements not found"
    /\ distUiDirExists

\* C10: a server whose bind failed has no watcher left running.
C10_NoWatcherWithoutBind ==
    socket = "failed" => watcher # "open"

\* C11: a request for a requirements file that cannot be read is answered
\* 404, and answering a file request changes nothing of the server: registry,
\* streams, socket, watcher, timer and pending events stay as they were, so
\* whatever is served next is served from the same state.
C11_NotFoundChangesNothing ==
    /\ []((response.route = "requirements" /\ ~response.found) =>
            response.status = 404)
    /\ [][response' # response =>
            UNCHANGED <<serverVars, watcherVars, inflight, log, phase, thrown>>]_vars

C11_Witness ==
    /\ response.route = "requirements"
    /\ response.status = 404
    /\ sseClients # {}
    /\ debounceTimer # <<>>
    /\ log.calls >= 1

\* What the claims about loads speak of: a decoded document every entry of
\* which passes validation, a finished call both of whose fetches and parses
\* succeeded, a step in which a call finishes, a call in progress.
WellFormedMain(doc) ==
    /\ doc.top = "map"
    /\ doc.reqs = "array"
    /\ \A i \in DOMAIN doc.entries : validateMainRequirement(doc.entries[i]) = <<>>

WellFormedDerived(doc) ==
    /\ doc.top = "map"
    /\ doc.reqs = "array"
    /\ \A i \in DOMAIN doc.entries :
            validateDerivedRequirement(doc.entries[i]) = <<>>

Succeeded(l) ==
    /\ l.call # 0
    /\ Ok(l.mainRes) /\ Ok(l.derivedRes)
    /\ WellFormedMain(l.mainRes.body)
    /\ WellFormedDerived(l.derivedRes.body)

FailedLoad(l) == l.call # 0 /\ ~Succeeded(l)

InProgress == {c \in Loads : loadPc[c] = "fetching"}

\* C12: each collection is the initial empty one, or all the entries of a
\* document that parsed successfully and whose every entry passes validation.
C12_ValidationBoundary ==
    /\ \/ mainOf = 0 /\ mainRequirements = <<>>
       \/ mainOf # 0 /\ WellFormedMain(mainSrc)
                     /\ mainRequirements = mainSrc.entries
    /\ \/ derivedOf = 0 /\ derivedRequirements = <<>>
       \/ derivedOf # 0 /\ WellFormedDerived(derivedSrc)
                        /\ derivedRequirements = derivedSrc.entries

C12_Witness ==
    /\ mainRequirements = <<M1>>
    /\ derivedRequirements = <<D1>>
    /\ error.cat = "entry"
    /\ error.file = "main.yaml"
    /\ InProgress # {}

\* A call finishes in this step.
Finishes == lastLoad'.call # lastLoad.call

\* C13: the step that ends a fully successful load replaces both collections
\* together, with loading false and error null, and a collection is replaced
\* in no other step; so the two collections always come from the same load.
C13_AtomicReplace ==
    /\ [](mainOf = derivedOf)
    /\ [][(Finishes /\ Succeeded(lastLoad')) =>
            /\ mainOf' = lastLoad'.call
            /\ derivedOf' = lastLoad'.call
            /\ ~loading'
            /\ error' = NoError]_vars
    /\ [][(mainOf' # mainOf \/ derivedOf' # derivedOf
            \/ mainRequirements' # mainRequirements
            \/ derivedRequirements' # derivedRequirements) =>
            (Finishes /\ Succeeded(lastLoad'))]_vars

C13_Witness ==
    /\ mainOf = 2
    /\ derivedOf = 2
    /\ loadPc[1] = "fetching"
    /\ mainRequirements # <<>>
    /\ derivedRequirements # <<>>

\* C14: the step that ends a failed load, whichever fetch or parse failed,
\* leaves both collections as they were and sets loading false and error.
C14_FailureCommitsNothing ==
    [][(Finishes /\ FailedLoad(lastLoad')) =>
            /\ UNCHANGED <<mainRequirements, derivedRequirements, mainOf,
                           derivedOf, mainSrc, derivedSrc, watching>>
            /\ ~loading'
            /\ error' # NoError]_vars

C14_Witness ==
    /\ FailedLoad(lastLoad)
    /\ Ok(lastLoad.mainRes)
    /\ WellFormedMain(lastLoad.mainRes.body)
    /\ lastLoad.mainRes.body.entries # mainRequirements
    /\ mainRequirements = <<M1>>
    /\ derivedRequirements = <<D1>>
    /\ error.file = "derived.yaml"

\* C15: the step that ends a load one of whose fetches had a non-success
\* status sets loading false and an error naming the file and its status:
\* main.yaml whenever its fetch failed, derived.yaml otherwise.
C15_FetchErrorNamesFile ==
    [][(Finishes /\ (~Ok(lastLoad'.mainRes) \/ ~Ok(lastLoad'.derivedRes))) =>
            /\ ~loading'
            /\ error' = IF ~Ok(lastLoad'.mainRes)
                        THEN FetchError("main.yaml", lastLoad'.mainRes.status)
                        ELSE FetchError("derived.yaml",
                                        lastLoad'.derivedRes.status)]_vars

C15_Witness ==
    /\ lastLoad.mainRes.status = 500
    /\ lastLoad.derivedRes.status = 404
    /\ error = FetchError("main.yaml", 500)
    /\ ~loading

\* C16: the step that ends a successful load leaves error null and the
\* collections holding that load's entries, whatever failed before it; and
\* with no call in progress, error is null exactly when the latest call to
\* finish succeeded.
C16_ErrorOfLatestOutcome ==
    /\ [][(Finishes /\ Succeeded(lastLoad')) =>
            /\ error' = NoError
            /\ mainRequirements' = lastLoad'.mainRes.body.entries
            /\ derivedRequirements' = lastLoad'.derivedRes.body.entries]_vars
    /\ []((InProgress = {} /\ lastLoad.call # 0) =>
            (error = NoError <=> Succeeded(lastLoad)))

C16_Witness ==
    /\ lastLoad.call \in retries
    /\ Succeeded(lastLoad)
    /\ error = NoError
    /\ mainOf = lastLoad.call
    /\ mainRequirements = <<M1>>

\* C17: loading is true exactly while some call of loadFromFiles() is in
\* progress.
C17_LoadingWhileInProgress == loading <=> InProgress # {}

\* The push connections the browser still holds, and the intervals still set.
LiveSources == {h \in Handles : sources[h] \in {"connecting", "open"}}
LiveTimers == {h \in Handles : timers[h] = "live"}

\* C18: a startWatching() call made while watching creates no EventSource
\* and no interval and leaves the existing mechanism as it is; so there is
\* never more than one push connection or interval alive.
C18_StartWatchingIdempotent ==
    /\ [][(watching /\ startCalls' # startCalls) =>
            UNCHANGED <<sources, timers, eventSource, pollingTimer, watching>>]_vars
    /\ [](Cardinality(LiveSources) + Cardinality(LiveTimers) <= 1)

C18_Witness ==
    /\ startCalls >= 2
    /\ watching
    /\ eventSource = 1
    /\ sources = [h \in Handles |-> IF h = 1 THEN "open" ELSE "none"]
    /\ timers = [h \in Handles |-> "none"]

\* C19: eventSource and pollingTimer are never both set, and while the store
\* stays watching neither changes.
C19_PushXorPolling ==
    /\ [](eventSource = 0 \/ pollingTimer = 0)
    /\ [][(watching /\ watching') =>
            UNCHANGED <<eventSource, pollingTimer>>]_vars

C19_Witness ==
    /\ watching
    /\ eventSource # 0
    /\ pollingTimer = 0
    /\ timers[1] = "cleared"
    /\ lastLoad.call # 0

\* C20: while watching, a mechanism that reloads the store is alive: a push
\* connection that is open or being made, or the interval.
C20_WatchingKeepsReloading ==
    watching =>
        \/ eventSource # 0 /\ eventSource \in LiveSources
        \/ pollingTimer # 0 /\ pollingTimer \in LiveTimers

\* C21: a stopWatching() call leaves nothing active: the EventSource is
\* closed or the interval cleared, both variables null, watching false; a
\* call made while not watching changes nothing; and while the store is not
\* watching no load starts, whatever the stream or a timer does.
C21_StopWatchingTearsDown ==
    /\ [][stopCalls' # stopCalls =>
            /\ ~watching' /\ eventSource' = 0 /\ pollingTimer' = 0
            /\ LiveSources' = {} /\ LiveTimers' = {}]_vars
    /\ [][(stopCalls' # stopCalls /\ ~watching) =>
            UNCHANGED <<sources, timers, storeVars, loadVars>>]_vars
    /\ [][~watching => \A c \in Loads : loadPc'[c] = "idle" <=> loadPc[c] = "idle"]_vars

C21_Witness ==
    /\ stopCalls = 2
    /\ startCalls = 2
    /\ ~watching
    /\ sources[1] = "closed"
    /\ timers[1] = "none"
    /\ sources[2] = "none"
    /\ lastLoad.call # 0

\* The parse function under study, its file and its validator, and the
\* entries of its document that fail validation.
ParsedFile == IF input.op = "parseMain" THEN "main.yaml" ELSE "derived.yaml"
EntryViolations(e) ==
    IF input.op = "parseMain" THEN validateMainRequirement(e)
    ELSE validateDerivedRequirement(e)
HasEntries == input.arg.top = "map" /\ input.arg.reqs = "array"
InvalidAt == {i \in DOMAIN input.arg.entries :
                EntryViolations(input.arg.entries[i]) # <<>>}

\* C23: a mapping whose requirements array holds only valid entries, none
\* included, parses to exactly those entries in their order.
C23_ValidCollectionRoundTrip ==
    (output.done /\ HasEntries /\ InvalidAt = {}) =>
        /\ output.result.ok
        /\ Len(output.result.value) = Len(input.arg.entries)
        /\ \A i \in DOMAIN input.arg.entries :
                output.result.value[i] = input.arg.entries[i]

C23_Witness ==
    /\ output.done
    /\ input.op = "parseMain"
    /\ output.result.ok
    /\ output.result.value = <<M2, M1, M2>>

\* C24: when the first invalid entry is the k-th counted from 0, the parse
\* throws the error of index k with that entry's violations, whatever
\* follows it.
C24_FirstInvalidIndex ==
    (output.done /\ HasEntries /\ InvalidAt # {}) =>
        \E k \in InvalidAt :
            /\ \A j \in InvalidAt : k <= j
            /\ output.result =
                Thrown(EntryError(ParsedFile, k - 1,
                                  EntryViolations(input.arg.entries[k])))

C24_Witness ==
    /\ output.done
    /\ input.op = "parseMain"
    /\ input.arg.entries = <<M1, MBlankId, MNotObject>>
    /\ output.result.error.index = 1
    /\ output.result.error.errors =
            Violation("id", "must be a non-empty string")

\* C25: a decoded value that is not a mapping fails with the category
\* "must contain a YAML object", and the category "must have a
\* 'requirements' array" is given only to a mapping whose requirements is
\* absent or not a sequence.
C25_StructuralCategories ==
    (output.done /\ input.arg.top # "throws") =>
        /\ input.arg.top # "map" => output.result.error.cat = "object"
        /\ output.result.error.cat = "array" =>
                (input.arg.top = "map" /\ input.arg.reqs # "array")

\* What the record shape asks of each property, said without the validators:
\* a text is a string with a character that is not white space, an enum value
\* is a string in the closed set, derivedFrom is an array of texts.
IsText(v) == v.t = "string" /\ \E i \in DOMAIN v.s : v.s[i] \notin WhiteSpace
InSet(v, allowed) == v.t = "string" /\ v.s \in allowed
Priorities == {<<"h", "i", "g", "h">>, <<"m", "e", "d", "i", "u", "m">>, <<"l", "o", "w">>}
Statuses == {<<"d", "r", "a", "f", "t">>, <<"r", "e", "v", "i", "e", "w">>, <<"a", "p", "p", "r", "o", "v", "e", "d">>}
Categories ==
    {<<"t", "e", "c", "h", "n", "i", "c", "a", "l">>, <<"o", "p", "e", "r", "a", "t", "i", "o", "n", "a", "l">>,
     <<"q", "u", "a", "l", "i", "t", "y">>, <<"c", "o", "n", "s", "t", "r", "a", "i", "n", "t">>}

FieldOrder ==
    IF input.op = "validateMain"
    THEN <<"id", "description", "userValue", "priority", "status">>
    ELSE <<"id", "description", "derivedFrom", "rationale", "category",
           "priority", "status">>

FieldOk(f) ==
    LET v == input.arg[f]
    IN  CASE f = "priority" -> InSet(v, Priorities)
          [] f = "status" -> InSet(v, Statuses)
          [] f = "category" -> InSet(v, Categories)
          [] f = "derivedFrom" ->
                v.t = "array" /\ \A i \in DOMAIN v.a : IsText(v.a[i])
          [] OTHER -> IsText(v)

FieldBad(f) == ~FieldOk(f)

ViolatedFields == [i \in DOMAIN output.result.errors |->
                        output.result.errors[i].field]

\* C26: for an object, the violations are one for each invalid property and
\* none for a valid one, in the fixed order of the properties; and the result
\* is valid exactly when there is none.
C26_AllViolationsCollected ==
    (output.done /\ input.arg.obj) =>
        /\ ViolatedFields = SelectSeq(FieldOrder, FieldBad)
        /\ output.result.valid <=> output.result.errors = <<>>

C26_Witness ==
    /\ output.done
    /\ input.op = "validateDerived"
    /\ ViolatedFields = <<"id", "derivedFrom", "category", "status">>

\* C27: a record is valid only if priority, status and, for a derived
\* record, category are in their closed sets; a value outside its set, or
\* not a string, gets a violation naming the property.
EnumFields ==
    IF input.op = "validateMain" THEN {"priority", "status"}
    ELSE {"category", "priority", "status"}

C27_EnumsClosed ==
    (output.done /\ input.arg.obj) =>
        /\ output.result.valid => \A f \in EnumFields : FieldOk(f)
        /\ \A f \in EnumFields :
                FieldBad(f) <=>
                    \E i \in DOMAIN output.result.errors :
                        output.result.errors[i].field = f

C27_Witness ==
    /\ output.done
    /\ input.op = "validateMain"
    /\ input.arg.priority = Str(<<"d", "r", "a", "f", "t">>)
    /\ input.arg.status = Str(<<"a", "p", "p", "r", "o", "v", "e", "d">>)
    /\ output.result.errors = Violation("priority", "must be one of")

\* A file the validate command should accept.
GoodMainFile(f) == f.state = "file" /\ WellFormedMain(f.doc)
GoodDerivedFile(f) == f.state = "file" /\ WellFormedDerived(f.doc)

\* C28: with the directory present each file is checked and reported on its
\* own, whatever the other one is; the exit code is 1 when the directory is
\* missing or a file is missing, unreadable, malformed or invalid, and 0
\* otherwise.
C28_FilesCheckedIndependently ==
    output.done =>
        /\ input.dir =>
            /\ output.result.main.checked
            /\ output.result.derived.checked
            /\ output.result.main.ok <=> GoodMainFile(input.main)
            /\ output.result.derived.ok <=> GoodDerivedFile(input.derived)
        /\ output.result.exitCode =
            IF ~input.dir \/ ~GoodMainFile(input.main)
                          \/ ~GoodDerivedFile(input.derived)
            THEN 1 ELSE 0

C28_Witness ==
    /\ output.done
    /\ input.dir
    /\ input.main.state = "missing"
    /\ input.derived = File("file", Doc("map", "array", <<D1>>))
    /\ output.result.derived.checked
    /\ output.result.derived.ok
    /\ output.result.main.error.cat = "notfound"
    /\ output.result.exitCode = 1

\* C29: whatever has been written to a stream starts with "connected" and
\* holds it once, and every stream that has connected has been written it.
C29_ConnectedFirstAndOnce ==
    \A s \in Streams :
        /\ stream[s] # "new" => written[s] # <<>>
        /\ \A i \in DOMAIN written[s] : written[s][i] = "connected" <=> i = 1

C29_Witness ==
    \E s \in Streams :
        written[s] = <<"connected", "requirements-changed",
                       "requirements-changed">>

\* C30: the registry holds exactly the streams that connected and whose
\* close has not been observed, none once the server is closed; a stream is
\* written to only at its connect or while registered, so never after its
\* close was observed.
C30_RegistryMembership ==
    /\ [](sseClients = {s \in Streams : stream[s] = "open"})
    /\ [](socket = "closed" => sseClients = {})
    /\ [][\A s \in Streams :
            written'[s] # written[s] =>
                (s \in sseClients \/ stream[s] = "new")]_vars

C30_Witness ==
    \E s \in Streams, t \in Streams :
        /\ stream[s] = "closed"
        /\ Len(written[s]) = 2
        /\ t \in sseClients
        /\ Len(written[t]) = 3

\* The pipeline has come to rest after at least one write: no file event is
\* queued, no debounce timer is pending, the store has handled every change
\* event written to its stream, and no call is in progress.  Without a
\* further write nothing changes from here on.
Settled ==
    /\ writes >= 1
    /\ inflight = <<>>
    /\ debounceTimer = <<>>
    /\ received = ChangesWritten(written[StoreStream])
    /\ InProgress = {}

\* C22: once the pipeline has come to rest, the two collections are the
\* entries of the two files as they are now.
C22_SettledIsConsistent ==
    Settled =>
        /\ mainRequirements = mainYaml.entries
        /\ derivedRequirements = derivedYaml.entries

\* C31: a second close() of the server handle throws nothing and changes
\* nothing: the watcher stays stopped with its subscription closed once, the
\* registry stays empty, the streams and the socket stay as the first call
\* left them.
C31_SecondCloseChangesNothing ==
    [][(phase = "server" /\ closeCalls >= 1 /\ closeCalls' = closeCalls + 1) =>
         /\ thrown' = "none"
         /\ UNCHANGED <<watcherVars, watcherHandle, sseClients, stream, socket,
                        written>>
         /\ watcher' # "open"
         /\ debounceTimer' = <<>>
         /\ sseClients' = {}
         /\ socket' \notin {"binding", "listening"}]_vars

C31_Witness ==
    /\ phase = "server"
    /\ closeCalls >= 2
    /\ thrown = "none"
    /\ watcher = "closed"
    /\ fsCloses = 1
    /\ socket = "closed"
    /\ \E s \in Streams : stream[s] = "ended"

\* C32: loads are not serialised.  Whenever a call applies its result, the
\* store's error is the error of that call's outcome, and when that outcome
\* is a success the two collections are the ones that call parsed; this
\* holds whether or not a call started later has applied its result before.
C32_LastAppliedWins ==
    [][lastLoad' # lastLoad =>
         \E outcome \in {Outcomes[lastLoad'.mainRes, lastLoad'.derivedRes]} :
             /\ error' = outcome.error
             /\ outcome.ok =>
                  /\ mainRequirements' = outcome.main
                  /\ derivedRequirements' = outcome.derived
                  /\ mainOf' = lastLoad'.call
             /\ ~outcome.ok =>
                  UNCHANGED <<mainRequirements, derivedRequirements>>]_vars

\* Call 1 and call 2 were in flight together, call 2 applied its result
\* first, and call 1, started before it, applied a success after it.
C32_Witness ==
    /\ InProgress = {}
    /\ loadPc[1] = "done"
    /\ loadPc[2] = "done"
    /\ 2 \notin retries
    /\ lastLoad.call = 1
    /\ mainOf = 1
    /\ mainRequirements = <<M1>>
    /\ derivedRequirements = <<>>
    /\ error = NoError

\* C33: an event that reports no filename, handled while the watcher is
\* open, counts as a qualifying event and sets the debounce timer to expire
\* DebounceMs later, whether or not a timer was pending; and once the clock
\* is past that instant with the watcher still open, onChange has been
\* invoked for it.
C33_NullFilenameQualifies ==
    /\ [][(inflight # <<>> /\ inflight' = Tail(inflight) /\ ~closed
            /\ Head(inflight) = NullName) =>
            /\ debounceTimer' = <<now + DebounceMs>>
            /\ log'.events = log.events + 1]_vars
    /\ []((~closed /\ log.events >= 1 /\ now > log.lastEv[1] + DebounceMs) =>
            (log.sinceEv = 1 /\ log.calls >= 1))

C33_Witness ==
    /\ phase = "watching"
    /\ ~closed
    /\ log.events >= 2
    /\ log.events = log.handled
    /\ log.burst >= 2
    /\ log.calls >= 1
    /\ log.sinceEv = 1

\* C34: the listener's handling of an event that names a file not ending in
\* .yaml or .yml changes nothing of the debounce state: a pending timer
\* stays pending with the expiry it had, no timer is started when none is
\* pending, and onChange is not invoked.
C34_OtherFileLeavesTimer ==
    [][(inflight # <<>> /\ inflight' = Tail(inflight)
            /\ NamesOtherFile(Head(inflight))) =>
         /\ UNCHANGED <<debounceTimer, closed, watcher>>
         /\ log'.calls = log.calls
         /\ log'.events = log.events
         /\ log'.lastEv = log.lastEv]_vars

\* An other-file event was ignored while a timer was pending; the timer is
\* still pending and still due DebounceMs after the event that set it.
C34_Witness ==
    /\ ~closed
    /\ log.ignoredPending
    /\ log.handled > log.events
    /\ inflight = <<>>
    /\ debounceTimer = <<log.lastEv[1] + DebounceMs>>
    /\ now = log.lastEv[1] + DebounceMs

\* C35: the FSWatcher's 'error' event changes nothing of the watcher: nothing
\* is thrown, onChange is not invoked, the closed flag, the subscription
\* count and the timer slot stay as they were; and a qualifying event
\* handled after the error is followed by onChange as before.
C35_WatcherErrorSwallowed ==
    /\ [][log'.errors # log.errors =>
            /\ UNCHANGED <<closed, debounceTimer, fsCloses, thrown, phase>>
            /\ log'.calls = log.calls
            /\ written' = written]_vars
    /\ []((~closed /\ log.errors >= 1 /\ log.events > log.errEvents
             /\ now > log.lastEv[1] + DebounceMs) =>
            (log.sinceEv = 1 /\ log.burstCalls = 1))

C35_Witness ==
    /\ ~closed
    /\ thrown = "none"
    /\ log.errors >= 1
    /\ log.errPending
    /\ log.events > log.errEvents
    /\ log.calls = 1
    /\ log.sinceEv = 1

\* C36: the live setTimeout timers of a watcher are exactly the one the
\* timer slot holds, so never more than one; a closed watcher has none; and
\* onChange is invoked only by the expiry of the pending timer, once per
\* expiry, which empties the slot.
C36_SinglePendingTimer ==
    /\ [](timeouts = Slot(debounceTimer) /\ Cardinality(timeouts) <= 1)
    /\ [](closed => (timeouts = {} /\ debounceTimer = <<>>))
    /\ [][log'.calls # log.calls =>
            /\ log'.calls = log.calls + 1
            /\ \E t \in timeouts : now >= t /\ debounceTimer = <<t>>
            /\ timeouts' = {}
            /\ debounceTimer' = <<>>]_vars

\* Three events in two bursts, one of which restarted the timer; one
\* invocation for each burst.
C36_Witness ==
    /\ ~closed
    /\ log.handled >= 3
    /\ log.events >= 3
    /\ log.calls = 2
    /\ timeouts = {}

\* C37: when the broadcast meets a registered stream whose client has gone
\* away, the failing write throws nothing, the server goes on running, and
\* every other registered stream gets the change event of that invocation.
C37_BroadcastIsolatesStreams ==
    [][(phase = "server" /\ log'.calls # log.calls
            /\ \E g \in sseClients : stream[g] = "gone") =>
         /\ thrown' = "none"
         /\ UNCHANGED <<phase, socket, watcher, closed, sseClients, stream>>
         /\ \A s \in sseClients :
               stream[s] # "gone" =>
                   written'[s] = Append(written[s], "requirements-changed")
         /\ \A s \in Streams \ sseClients : written'[s] = written[s]]_vars

C37_Witness ==
    \E g, s \in Streams :
        /\ g # s
        /\ sseClients = {g, s}
        /\ stream[g] = "gone"
        /\ stream[s] = "open"
        /\ written[g] = <<"connected", "write-failed">>
        /\ written[s] = <<"connected", "requirements-changed">>
        /\ log.calls = 1
        /\ socket = "listening"
        /\ watcher = "open"

\* C38: from the return of startUiServer until close() the server holds one
\* active watcher: its handle is set, the subscription is open and the
\* watcher is not closed.
C38_ExactlyOneDetector ==
    (phase = "server" /\ closeCalls = 0) =>
        /\ watcherHandle = "handle"
        /\ watcher = "open"
        /\ ~closed

\* C39: in the HMR-based store, once stopWatching() has returned and until
\* the next startWatching(), no call of loadFromFiles() starts.
C39_HmrStopWatchingStops ==
    [][(stopCalls >= 1 /\ ~watching /\ ~watching') =>
         \A c \in Loads : loadPc[c] = "idle" => loadPc'[c] = "idle"]_vars

\* C40: in the SSE-based store, watching is true exactly when one of
\* eventSource and pollingTimer is set and the other is null; when watching
\* is false both are null.
C40_WatchingIffMechanismHeld ==
    /\ watching <=> ((eventSource # 0) # (pollingTimer # 0))
    /\ ~watching => (eventSource = 0 /\ pollingTimer = 0)

\* Started over push, stopped, and started again over polling.
C40_Witness ==
    /\ startCalls >= 2
    /\ stopCalls >= 1
    /\ watching
    /\ eventSource = 0
    /\ pollingTimer # 0
    /\ timers[pollingTimer] = "live"
    /\ \E h \in Handles : sources[h] = "closed"

====
